---------------------------- MODULE Spec2Model ----------------------------
(***************************************************************************)
(* A model of mph_tetra's format readers.                                  *)
(*                                                                         *)
(*   SpecLzss : util::decompress_lz (src/util/lzss.cpp), the LZ10 / LZ11   *)
(*              decoders and the overlay wrapper, one step per token.      *)
(*   SpecNds  : nds_cartridge_header_t::seems_valid_enough and             *)
(*              compute_header_crc16 (src/util/nds.cpp).                   *)
(*   SpecRom  : the is_mph_* predicates (src/util/nds.cpp).                *)
(*   SpecArc  : NDS_open_archive (src/util/physfs/archiver_nds.cpp).       *)
(*   SpecSnd  : util::archive_extract_entries (src/util/archive.cpp).      *)
(*                                                                         *)
(* The host is little-endian (SDL_SwapLE16 / SDL_SwapLE32 are the          *)
(* identity).  Indices are 0-based as in the source; element k of a        *)
(* vector v is v[k + 1] in the model.                                      *)
(***************************************************************************)
EXTENDS Integers, Sequences, FiniteSets, TLC

VARIABLES
    _in,                \* decompress_lz: argument `in`
    is_overlay,         \* decompress_lz: argument `is_overlay`
    _out,               \* decompress_lz: argument `out`
    ret,                \* "none" until the call ends, then "true", "false" or "crash"
    pc,                 \* position inside decompress_lz
    algorithm,          \* "lz10" | "lz11" | "none"
    flipped_data,       \* decompress_lz_overlay: flipped_data
    uncompressed_data,  \* decompress_lz_overlay: uncompressed_data
    decompressed_size,  \* the decoder's decompressed_size (a Uint32, two 16-bit limbs)
    iter,               \* the decoder's input cursor
    b,                  \* the decoder's current flag byte
    i,                  \* the decoder's bit counter (7 .. 0)
    lz_ret,             \* the decoder's own return value ("none" until it returns)
    oob_read,           \* some next(it) read _in[k] with k >= _in.size()
    underflow_read,     \* some copy read _out[_out.size() - disp] with disp > _out.size()
    truncated,          \* _in is a valid input with its last byte removed
    header,             \* nds_cartridge_header_t: the fields
    valid,              \* seems_valid_enough(check_crc) per check_crc, "none" before the call
    mph,                \* is_mph_*() per predicate, "none" before the call
    io,                 \* the PHYSFS_Io NDS_open_archive reads: the cartridge image
    env,                \* forWriting, and what UNPK_openArchive and UNPK_addEntry will do
    apc,                \* position inside NDS_open_archive
    handle,             \* what NDS_open_archive returned: "none" | "NULL" | "unpkarc" | "crash"
    claimed,            \* *claimed
    unpkarc,            \* the archive under construction: "none" | "open" | "abandoned"
    entries,            \* the entries added to unpkarc, in order
    fat_buffer,         \* NDS_load_entries: fat_buffer
    fnt_buffer,         \* NDS_load_entries: fnt_buffer
    stack,              \* the active calls of recurse_dir_table, innermost last
    load_ret,           \* what NDS_load_entries returned: "none" | "0" | "1"
    fat_indexed,        \* the indices start_of_fat was read at
    fnt_outside,        \* some FNT access was outside the file_name_table_size bytes read
    fnt_ub,             \* some FNT access was outside fnt_buffer
    snd_in,             \* archive_extract_entries: argument `in`
    snd_out,            \* archive_extract_entries: argument `out`
    snd_i,              \* archive_extract_entries: the loop counter i
    snd_ret,            \* "none" at the call, "loop" in the loop, then "true", "false",
                        \* "bad_alloc" (resize threw) or "crash"
    snd_oob             \* some memcpy read bytes after the last byte of `in`

lzvars == <<_in, is_overlay, _out, ret, pc, algorithm, flipped_data, uncompressed_data,
            decompressed_size, iter, b, i, lz_ret, oob_read, underflow_read, truncated>>
romvars == <<mph>>
arcvars == <<io, env, apc, handle, claimed, unpkarc, entries, fat_buffer, fnt_buffer,
             stack, load_ret, fat_indexed, fnt_outside, fnt_ub>>
ndsvars == <<header, valid, romvars, arcvars>>
sndvars == <<snd_in, snd_out, snd_i, snd_ret, snd_oob>>
vars == <<lzvars, ndsvars, sndvars>>

---------------------------------------------------------------------------
(* Bounds of the model *)

\* longest compressed body (the bytes after the 4-byte header) enumerated exhaustively
MaxBody == 4
\* largest declared size (low byte of the 24-bit size) enumerated
MaxDeclared == 5

\* the byte values inputs are built from
ByteVals == {0, 1, 16, 32, 65, 66}

\* the value of a byte read outside a vector's elements, stored as data
Indeterminate == -1

---------------------------------------------------------------------------
(* Fixed-width integers *)

Pow2(n) == 2 ^ n

\* x >> n and x & (2^n - 1) on non-negative integers
Shr(x, n) == x \div Pow2(n)
LowBits(x, n) == x % Pow2(n)

\* A Uint32 as two 16-bit limbs: TLC's integers stop at 2^31 - 1.
U32(lo16, hi16) == [lo |-> lo16, hi |-> hi16]
U32OfNat(n) == U32(n % 65536, n \div 65536)
U32OfBytes(b0, b1, b2, b3) == U32(b0 + 256 * b1, b2 + 256 * b3)

\* Uint32 addition: the sum modulo 2^32
U32Add(x, y) ==
    LET lo == x.lo + y.lo
        hi == x.hi + y.hi + (lo \div 65536)
    IN  U32(lo % 65536, hi % 65536)

U32Less(x, y) == x.hi < y.hi \/ (x.hi = y.hi /\ x.lo < y.lo)

Reverse(s) == [k \in 1..Len(s) |-> s[Len(s) + 1 - k]]

---------------------------------------------------------------------------
(* The LZSS decoders: src/util/lzss.cpp *)

\* the vectors the running decoder reads from and appends to
Src == IF is_overlay THEN flipped_data ELSE _in
Dst == IF is_overlay THEN uncompressed_data ELSE _out

\* bail_if_next_next_is_unsafe(): the cursor is past the end
bail_if_next_next_is_unsafe(k) == k > Len(Src)

\* next(it) where k is the cursor: _in[k].  At k >= _in.size() the read is outside
\* the vector's elements: any byte, when the value steers the decoder ...
next(k) == IF k < Len(Src) THEN {Src[k + 1]} ELSE ByteVals
\* ... and an indeterminate byte when it is only stored
next_data(k) == IF k < Len(Src) THEN Src[k + 1] ELSE Indeterminate
next_is_outside(k) == k >= Len(Src)

\* a step that read outside a vector may also end the process
Survives(ub) == IF ub THEN BOOLEAN ELSE {TRUE}

\* lz10_copy with the source position computed once, before the loop
lz10_copy_fixed_source(out, count, disp) ==
    out \o [k \in 1..count |-> IF disp > Len(out) THEN Indeterminate
                               ELSE out[Len(out) - disp + 1]]

\* decompress_lz10's copy loop: count times _out.push_back(_out[_out.size() - disp]);
\* with disp > _out.size() the index wraps and the read is outside the vector
\* (element k of the result is the element disp before it, which the loop pushed
\* or found in _out, back to the first one that _out held)
lz10_copy(out, count, disp) ==
    LET RECURSIVE pushed(_)
        pushed(k) == IF k > Len(out) THEN pushed(k - disp)
                     ELSE IF k < 1 THEN Indeterminate ELSE out[k]
    IN  [k \in 1..(Len(out) + count) |-> pushed(k)]

\* decompress_lz11's copy loop: pos = _out.size() - disp; if (pos > _out.size()) goto end;
\* the result is the vector and whether the loop left by the goto (the count
\* iterations are run as two halves to keep the evaluation shallow)
RECURSIVE lz11_copy(_, _, _)
lz11_copy(out, count, disp) ==
    IF count = 0 THEN [out |-> out, bailed |-> FALSE]
    ELSE IF count = 1
    THEN IF disp > Len(out) THEN [out |-> out, bailed |-> TRUE]
         ELSE [out |-> Append(out, out[Len(out) - disp + 1]), bailed |-> FALSE]
    ELSE LET first == lz11_copy(out, count \div 2, disp)
         IN  IF first.bailed THEN first
             ELSE lz11_copy(first.out, count - (count \div 2), disp)

\* after_token_pc without if (decompressed_size <= _out.size()) goto end
after_token_pc_to_next_bit(out) == IF i = 0 THEN "loop" ELSE "bits"

\* if (decompressed_size <= _out.size()) goto end; otherwise the for loop's i--,
\* and after bit 0 the while loop's test
after_token_pc(out) ==
    IF ~U32Less(U32OfNat(Len(out)), decompressed_size) THEN "end"
    ELSE IF i = 0 THEN "loop" ELSE "bits"

SetDst(v) ==
    IF is_overlay THEN uncompressed_data' = v /\ UNCHANGED _out
                  ELSE _out' = v /\ UNCHANGED uncompressed_data

\* the while loop's test and the read of the flag byte (both decoders)
lz_flag_byte ==
    /\ pc = "loop"
    /\ IF ~U32Less(U32OfNat(Len(Dst)), decompressed_size)
       THEN /\ pc' = "end"
            /\ UNCHANGED <<ret, iter, b, i, oob_read>>
       ELSE IF bail_if_next_next_is_unsafe(iter)
       THEN /\ pc' = "end"
            /\ UNCHANGED <<ret, iter, b, i, oob_read>>
       ELSE \E v \in next(iter), alive \in Survives(next_is_outside(iter)) :
            /\ b' = v
            /\ iter' = iter + 1
            /\ i' = 7
            /\ oob_read' = (oob_read \/ next_is_outside(iter))
            /\ pc' = IF alive THEN "bits" ELSE "done"
            /\ ret' = IF alive THEN ret ELSE "crash"
    /\ UNCHANGED <<_in, is_overlay, _out, algorithm, flipped_data, uncompressed_data,
                   decompressed_size, lz_ret, underflow_read, truncated>>
    /\ UNCHANGED <<ndsvars, sndvars>>

\* a 0 flag bit: _out.push_back(next(it)) (both decoders)
lz_literal ==
    /\ pc = "bits"
    /\ Shr(b, i) % 2 = 0
    /\ IF bail_if_next_next_is_unsafe(iter)
       THEN /\ pc' = "end"
            /\ UNCHANGED <<ret, iter, i, oob_read, _out, uncompressed_data>>
       ELSE \E alive \in Survives(next_is_outside(iter)) :
            LET out == Append(Dst, next_data(iter)) IN
            /\ SetDst(out)
            /\ iter' = iter + 1
            /\ oob_read' = (oob_read \/ next_is_outside(iter))
            /\ i' = IF i = 0 THEN i ELSE i - 1
            /\ pc' = IF alive THEN after_token_pc(out) ELSE "done"
            /\ ret' = IF alive THEN ret ELSE "crash"
    /\ UNCHANGED <<_in, is_overlay, algorithm, flipped_data, decompressed_size, b,
                   lz_ret, underflow_read, truncated>>
    /\ UNCHANGED <<ndsvars, sndvars>>

\* decompress_lz10, a 1 flag bit: the two code bytes and the copy
lz10_backref ==
    /\ pc = "bits"
    /\ algorithm = "lz10"
    /\ Shr(b, i) % 2 = 1
    /\ IF bail_if_next_next_is_unsafe(iter)
       THEN /\ pc' = "end"
            /\ UNCHANGED <<ret, iter, i, oob_read, underflow_read, _out, uncompressed_data>>
       ELSE IF bail_if_next_next_is_unsafe(iter + 1)
       THEN \* the first code byte was read at _in.size()
            \E alive \in BOOLEAN :
            /\ iter' = iter + 1
            /\ oob_read' = TRUE
            /\ pc' = IF alive THEN "end" ELSE "done"
            /\ ret' = IF alive THEN ret ELSE "crash"
            /\ UNCHANGED <<i, underflow_read, _out, uncompressed_data>>
       ELSE \E hi \in next(iter), lo \in next(iter + 1) :
            LET sh == hi * 256 + lo
                disp_extra == IF is_overlay THEN 3 ELSE 1
                count == Shr(sh, 12) + 3
                disp == LowBits(sh, 12) + disp_extra
                out == lz10_copy(Dst, count, disp)
                under == disp > Len(Dst)
            IN  \E alive \in Survives(next_is_outside(iter + 1) \/ under) :
                /\ SetDst(out)
                /\ iter' = iter + 2
                /\ oob_read' = (oob_read \/ next_is_outside(iter + 1))
                /\ underflow_read' = (underflow_read \/ under)
                /\ i' = IF i = 0 THEN i ELSE i - 1
                /\ pc' = IF alive THEN after_token_pc(out) ELSE "done"
                /\ ret' = IF alive THEN ret ELSE "crash"
    /\ UNCHANGED <<_in, is_overlay, algorithm, flipped_data, decompressed_size, b,
                   lz_ret, truncated>>
    /\ UNCHANGED <<ndsvars, sndvars>>

\* decompress_lz11, a 1 flag bit: the code bytes.  k is the cursor and v0..v3 the
\* bytes the successive next(it) return; n is the number of next(it) made, b the
\* value left in b (the code bytes are read into the flag byte's variable), and
\* bailed whether a bail_if_next_next_is_unsafe() left by goto end
lz11_code(k, v0, v1, v2, v3) ==
    LET indicator == Shr(v0, 4) IN
    IF indicator = 0 THEN
        \* 8 bit count, 12 bit disp
        IF bail_if_next_next_is_unsafe(k + 1)
        THEN [n |-> 1, b |-> v0, bailed |-> TRUE, count |-> 0, disp |-> 0]
        ELSE IF bail_if_next_next_is_unsafe(k + 2)
        THEN [n |-> 2, b |-> v1, bailed |-> TRUE, count |-> 0, disp |-> 0]
        ELSE [n |-> 3, b |-> v1, bailed |-> FALSE,
              count |-> v0 * 16 + Shr(v1, 4) + 17,
              disp |-> LowBits(v1, 4) * 256 + v2 + 1]
    ELSE IF indicator = 1 THEN
        \* 16 bit count, 12 bit disp
        IF bail_if_next_next_is_unsafe(k + 1)
        THEN [n |-> 1, b |-> v0, bailed |-> TRUE, count |-> 0, disp |-> 0]
        ELSE IF bail_if_next_next_is_unsafe(k + 2)
        THEN [n |-> 2, b |-> v0, bailed |-> TRUE, count |-> 0, disp |-> 0]
        ELSE IF bail_if_next_next_is_unsafe(k + 3)
        THEN [n |-> 3, b |-> v2, bailed |-> TRUE, count |-> 0, disp |-> 0]
        ELSE [n |-> 4, b |-> v2, bailed |-> FALSE,
              count |-> LowBits(v0, 4) * 4096 + v1 * 16 + Shr(v2, 4) + 273,
              disp |-> LowBits(v2, 4) * 256 + v3 + 1]
    ELSE
        \* indicator is count (4 bits), 12 bit disp
        IF bail_if_next_next_is_unsafe(k + 1)
        THEN [n |-> 1, b |-> v0, bailed |-> TRUE, count |-> 0, disp |-> 0]
        ELSE [n |-> 2, b |-> v0, bailed |-> FALSE,
              count |-> indicator + 1,
              disp |-> LowBits(v0, 4) * 256 + v1 + 1]

\* the values next(it) can return at cursor k, when it is reached at all
next_if_reached(k) == IF bail_if_next_next_is_unsafe(k) THEN {0} ELSE next(k)

\* decompress_lz11, a 1 flag bit: the code bytes and the copy
lz11_backref ==
    /\ pc = "bits"
    /\ algorithm = "lz11"
    /\ Shr(b, i) % 2 = 1
    /\ IF bail_if_next_next_is_unsafe(iter)
       THEN /\ pc' = "end"
            /\ UNCHANGED <<ret, iter, b, i, oob_read, _out, uncompressed_data>>
       ELSE \E v0 \in next(iter), v1 \in next_if_reached(iter + 1),
               v2 \in next_if_reached(iter + 2), v3 \in next_if_reached(iter + 3) :
            LET c == lz11_code(iter, v0, v1, v2, v3)
                outside == next_is_outside(iter + c.n - 1)
                cp == IF c.bailed THEN [out |-> Dst, bailed |-> TRUE]
                      ELSE lz11_copy(Dst, c.count, c.disp)
            IN  \E alive \in Survives(outside) :
                /\ SetDst(cp.out)
                /\ iter' = iter + c.n
                /\ b' = c.b
                /\ oob_read' = (oob_read \/ outside)
                /\ i' = IF i = 0 THEN i ELSE i - 1
                /\ pc' = IF ~alive THEN "done"
                         ELSE IF cp.bailed THEN "end" ELSE after_token_pc(cp.out)
                /\ ret' = IF alive THEN ret ELSE "crash"
    /\ UNCHANGED <<_in, is_overlay, algorithm, flipped_data, decompressed_size,
                   lz_ret, underflow_read, truncated>>
    /\ UNCHANGED <<ndsvars, sndvars>>

\* lz10_result accepting an output longer than the declared size
lz10_result_at_least(out, size) ==
    IF U32Less(U32OfNat(Len(out)), size) THEN "false" ELSE "true"

\* decompress_lz10, label end: the return value
lz10_result(out, size) == IF U32OfNat(Len(out)) # size THEN "false" ELSE "true"

\* decompress_lz11, label end: the return value
lz11_result(out, size) == IF U32OfNat(Len(out)) # size THEN "false" ELSE "false"

\* the decoder returns; in normal mode its value is decompress_lz's
lz_end ==
    /\ pc = "end"
    /\ LET r == IF algorithm = "lz10" THEN lz10_result(Dst, decompressed_size)
                ELSE lz11_result(Dst, decompressed_size)
       IN  IF is_overlay
           THEN /\ lz_ret' = r
                /\ pc' = "tail"
                /\ UNCHANGED ret
           ELSE /\ lz_ret' = r
                /\ ret' = r
                /\ pc' = "done"
    /\ UNCHANGED <<_in, is_overlay, _out, algorithm, flipped_data, uncompressed_data,
                   decompressed_size, iter, b, i, oob_read, underflow_read, truncated>>
    /\ UNCHANGED <<ndsvars, sndvars>>

\* overlay_compression_header_t at the last 8 bytes of the input, endian_correct()ed
overlay_padding(in) == in[Len(in) - 4]
overlay_end_delta(in) ==
    in[Len(in) - 7] + 256 * in[Len(in) - 6] + 65536 * in[Len(in) - 5]
overlay_start_delta(in) ==
    U32OfBytes(in[Len(in) - 3], in[Len(in) - 2], in[Len(in) - 1], in[Len(in)])
\* Uint32 decompressed_size = header.start_delta + header.end_delta
overlay_decompressed_size(in) ==
    U32Add(overlay_start_delta(in), U32OfNat(overlay_end_delta(in)))

\* overlay_window with the loop running to end_delta
overlay_window_with_padding(in) ==
    LET pos == Len(in) - overlay_end_delta(in)
    IN  [k \in 1..overlay_end_delta(in) |-> in[pos + k]]

\* the bytes pushed to flipped_data before std::reverse: _in[pos + i] for
\* i < end_delta - padding, with pos = filelen - end_delta
overlay_window(in) ==
    LET pos == Len(in) - overlay_end_delta(in)
    IN  [k \in 1..(overlay_end_delta(in) - overlay_padding(in)) |-> in[pos + k]]

\* the loop's own check: j >= filelen
overlay_window_in_bounds(in) ==
    \A k \in 0..(overlay_end_delta(in) - overlay_padding(in) - 1) :
        Len(in) - overlay_end_delta(in) + k < Len(in)

\* _in[0 .. filelen - end_delta) followed by the reversed uncompressed_data
overlay_output(in, data) ==
    SubSeq(in, 1, Len(in) - overlay_end_delta(in)) \o Reverse(data)

\* the decoder named by the magic byte
lz_magic(m) == IF m = 16 THEN "lz10" ELSE IF m = 17 THEN "lz11" ELSE "none"

\* lz_declared_size keeping 16 bits of the size
lz_declared_size_16(in) == U32OfBytes(in[2], in[3], 0, 0)

\* the 24-bit size: memcpy(header, _in.data() + 1, 3); header[3] = 0
lz_declared_size(in) == U32OfBytes(in[2], in[3], in[4], 0)

\* the offset decompress_lz_normal hands to the decoder
lz_normal_offset == 4

lz_return(r) ==
    /\ pc' = "done"
    /\ ret' = r
    /\ _out' = <<>>
    /\ UNCHANGED <<algorithm, flipped_data, uncompressed_data, decompressed_size, iter>>

lz_start(alg, flipped, size, offset) ==
    /\ pc' = "loop"
    /\ algorithm' = alg
    /\ flipped_data' = flipped
    /\ uncompressed_data' = <<>>
    /\ decompressed_size' = size
    /\ iter' = offset
    /\ _out' = <<>>
    /\ UNCHANGED ret

\* decompress_lz_normal up to the decoder's loop
decompress_lz_normal ==
    IF Len(_in) < 4 THEN lz_return("false")
    ELSE IF lz_magic(_in[1]) = "none" THEN lz_return("false")
    ELSE lz_start(lz_magic(_in[1]), <<>>, lz_declared_size(_in), lz_normal_offset)

\* decompress_lz_overlay up to the decoder's loop
decompress_lz_overlay ==
    IF Len(_in) < 8 THEN lz_return("false")
    ELSE IF overlay_end_delta(_in) > Len(_in) THEN lz_return("false")
    ELSE IF overlay_end_delta(_in) < overlay_padding(_in) THEN lz_return("false")
    ELSE IF ~overlay_window_in_bounds(_in) THEN lz_return("false")
    ELSE lz_start("lz10", Reverse(overlay_window(_in)),
                  overlay_decompressed_size(_in), 0)

\* util::decompress_lz: _out.clear() and the mode's function
decompress_lz ==
    /\ pc = "idle"
    /\ IF is_overlay THEN decompress_lz_overlay ELSE decompress_lz_normal
    /\ UNCHANGED <<_in, is_overlay, b, i, lz_ret, oob_read, underflow_read, truncated>>
    /\ UNCHANGED <<ndsvars, sndvars>>

\* decompress_lz_overlay after the decoder returned
decompress_lz_overlay_tail ==
    /\ pc = "tail"
    /\ pc' = "done"
    /\ IF lz_ret # "true"
       THEN /\ ret' = "false"
            /\ UNCHANGED <<_out, uncompressed_data>>
       ELSE /\ ret' = "true"
            /\ uncompressed_data' = Reverse(uncompressed_data)
            /\ _out' = overlay_output(_in, uncompressed_data)
    /\ UNCHANGED <<_in, is_overlay, algorithm, flipped_data, decompressed_size, iter,
                   b, i, lz_ret, oob_read, underflow_read, truncated>>
    /\ UNCHANGED <<ndsvars, sndvars>>

---------------------------------------------------------------------------
(* The cartridge header: src/util/nds.h, src/util/nds.cpp *)

\* offsetof(nds_cartridge_header_t, header_crc16)
OffsetOfHeaderCrc16 == 350

\* the lowest address accepted for an entry point and a load address: 0x02000000
MainRamBase == 33554432

\* the lowest icon_title_offset accepted when there is one: 0x8000
MinIconTitleOffset == 32768

Zeros(n) == [k \in 1..n |-> 0]
LE32(v) == <<v % 256, (v \div 256) % 256, (v \div 65536) % 256, v \div 16777216>>

\* the first offsetof(header_crc16) bytes of the header as stored on the cartridge;
\* the fields the model does not carry are 0
HeaderImage(h) ==
    Zeros(12) \o h.game_code \o Zeros(14) \o <<h.rom_version>> \o Zeros(1)
    \o LE32(h.arm9_rom_offset) \o LE32(h.arm9_address_entry)
    \o LE32(h.arm9_address_ram) \o LE32(h.arm9_size)
    \o LE32(h.arm7_rom_offset) \o LE32(h.arm7_address_entry)
    \o LE32(h.arm7_address_ram) \o LE32(h.arm7_size)
    \o LE32(h.file_name_table_offset) \o LE32(h.file_name_table_size)
    \o LE32(h.file_allocation_table_offset) \o LE32(h.file_allocation_table_size)
    \o LE32(h.arm9_overlay_offset) \o LE32(h.arm9_overlay_size)
    \o LE32(h.arm7_overlay_offset) \o LE32(h.arm7_overlay_size)
    \o Zeros(8) \o LE32(h.icon_title_offset) \o Zeros(24)
    \o LE32(h.rom_size_header) \o Zeros(214)

\* bitwise exclusive or, by the table of two 4-bit operands
RECURSIVE XorBits(_, _, _)
XorBits(x, y, n) ==
    IF n = 0 THEN 0
    ELSE 2 * XorBits(x \div 2, y \div 2, n - 1) + ((x + y) % 2)
XorNibble == [x \in 0..15 |-> [y \in 0..15 |-> XorBits(x, y, 4)]]
Xor8(x, y) == 16 * XorNibble[x \div 16][y \div 16] + XorNibble[x % 16][y % 16]
Xor16(x, y) == 256 * Xor8(x \div 256, y \div 256) + Xor8(x % 256, y % 256)

\* SDL_crc16's step for one byte: eight shifts with the reflected polynomial 0xA001
RECURSIVE crc16_bits(_, _, _)
crc16_bits(crc, r, n) ==
    IF n = 0 THEN crc
    ELSE crc16_bits(Xor16(IF (crc + r) % 2 = 1 THEN 40961 ELSE 0, crc \div 2),
                    r \div 2, n - 1)
crc16_for_byte == [r \in 0..255 |-> crc16_bits(0, r, 8)]

\* SDL_crc16(crc, data, len), the loop over the bytes data[from .. to] in order
\* (the range is halved to keep the evaluation shallow)
RECURSIVE SDL_crc16(_, _, _, _)
SDL_crc16(crc, data, from, to) ==
    IF from > to THEN crc
    ELSE IF from = to
    THEN Xor16(crc16_for_byte[Xor8(crc % 256, data[from])], crc \div 256)
    ELSE LET mid == (from + to) \div 2
             left == SDL_crc16(crc, data, from, mid)
         IN  IF left >= 0 THEN SDL_crc16(left, data, mid + 1, to) ELSE left

\* nds_cartridge_header_t::compute_header_crc16
compute_header_crc16(h) == SDL_crc16(65535, HeaderImage(h), 1, OffsetOfHeaderCrc16)

\* NOT_ZERO_IF_OFF(name): the condition under which the macro returns
NOT_ZERO_IF_OFF(offset, size) == offset # 0 /\ size = 0

\* seems_valid_enough with the table checks made before the binaries' checks
seems_valid_enough_tables_first(h, check_crc) ==
    IF h.rom_size_header <= OffsetOfHeaderCrc16 THEN FALSE
    ELSE IF NOT_ZERO_IF_OFF(h.file_allocation_table_offset, h.file_allocation_table_size)
    THEN TRUE
    ELSE IF NOT_ZERO_IF_OFF(h.file_name_table_offset, h.file_name_table_size)
    THEN TRUE
    ELSE IF NOT_ZERO_IF_OFF(h.arm9_overlay_offset, h.arm9_overlay_size) THEN TRUE
    ELSE IF NOT_ZERO_IF_OFF(h.arm7_overlay_offset, h.arm7_overlay_size) THEN TRUE
    ELSE IF \/ h.arm9_address_entry < MainRamBase
            \/ h.arm9_address_ram < MainRamBase
            \/ h.arm9_size = 0
            \/ h.arm9_rom_offset < h.rom_size_header THEN FALSE
    ELSE IF \/ h.arm7_address_entry < MainRamBase
            \/ h.arm7_address_ram < MainRamBase
            \/ h.arm7_size = 0
            \/ h.arm7_rom_offset < h.rom_size_header THEN FALSE
    ELSE IF h.icon_title_offset # 0 /\ h.icon_title_offset < MinIconTitleOffset
    THEN FALSE
    ELSE IF check_crc /\ compute_header_crc16(h) # h.header_crc16 THEN FALSE
    ELSE TRUE

\* seems_valid_enough with the CRC compared when check_crc is false
seems_valid_enough_crc_inverted(h, check_crc) ==
    IF h.rom_size_header <= OffsetOfHeaderCrc16 THEN FALSE
    ELSE IF \/ h.arm9_address_entry < MainRamBase
            \/ h.arm9_address_ram < MainRamBase
            \/ h.arm9_size = 0
            \/ h.arm9_rom_offset < h.rom_size_header THEN FALSE
    ELSE IF \/ h.arm7_address_entry < MainRamBase
            \/ h.arm7_address_ram < MainRamBase
            \/ h.arm7_size = 0
            \/ h.arm7_rom_offset < h.rom_size_header THEN FALSE
    ELSE IF NOT_ZERO_IF_OFF(h.file_allocation_table_offset, h.file_allocation_table_size)
    THEN TRUE
    ELSE IF NOT_ZERO_IF_OFF(h.file_name_table_offset, h.file_name_table_size)
    THEN TRUE
    ELSE IF NOT_ZERO_IF_OFF(h.arm9_overlay_offset, h.arm9_overlay_size) THEN TRUE
    ELSE IF NOT_ZERO_IF_OFF(h.arm7_overlay_offset, h.arm7_overlay_size) THEN TRUE
    ELSE IF h.icon_title_offset # 0 /\ h.icon_title_offset < MinIconTitleOffset
    THEN FALSE
    ELSE IF ~check_crc /\ compute_header_crc16(h) # h.header_crc16 THEN FALSE
    ELSE TRUE

\* nds_cartridge_header_t::seems_valid_enough.  NOT_ZERO_IF_OFF returns 4 from a
\* function returning bool: the caller receives true
seems_valid_enough(h, check_crc) ==
    IF h.rom_size_header <= OffsetOfHeaderCrc16 THEN FALSE
    ELSE IF \/ h.arm9_address_entry < MainRamBase
            \/ h.arm9_address_ram < MainRamBase
            \/ h.arm9_size = 0
            \/ h.arm9_rom_offset < h.rom_size_header THEN FALSE
    ELSE IF \/ h.arm7_address_entry < MainRamBase
            \/ h.arm7_address_ram < MainRamBase
            \/ h.arm7_size = 0
            \/ h.arm7_rom_offset < h.rom_size_header THEN FALSE
    ELSE IF NOT_ZERO_IF_OFF(h.file_allocation_table_offset, h.file_allocation_table_size)
    THEN TRUE
    ELSE IF NOT_ZERO_IF_OFF(h.file_name_table_offset, h.file_name_table_size)
    THEN TRUE
    ELSE IF NOT_ZERO_IF_OFF(h.arm9_overlay_offset, h.arm9_overlay_size) THEN TRUE
    ELSE IF NOT_ZERO_IF_OFF(h.arm7_overlay_offset, h.arm7_overlay_size) THEN TRUE
    ELSE IF h.icon_title_offset # 0 /\ h.icon_title_offset < MinIconTitleOffset
    THEN FALSE
    ELSE IF check_crc /\ compute_header_crc16(h) # h.header_crc16 THEN FALSE
    ELSE TRUE

\* a caller asks seems_valid_enough(check_crc) about the header
call_seems_valid_enough ==
    /\ header # <<>>
    /\ \E check_crc \in BOOLEAN :
        /\ valid[check_crc] = "none"
        /\ valid' = [valid EXCEPT ![check_crc] =
                        IF seems_valid_enough(header, check_crc) THEN "true" ELSE "false"]
    /\ UNCHANGED header
    /\ UNCHANGED romvars
    /\ UNCHANGED arcvars
    /\ UNCHANGED <<lzvars, sndvars>>

---------------------------------------------------------------------------
(* The NDS archiver: src/util/physfs/archiver_nds.cpp *)

\* no cartridge, and NDS_open_archive not called
NoImage == [size |-> 0, regions |-> <<>>]
ArcClosed ==
    /\ io = NoImage
    /\ env = [forWriting |-> FALSE, open_ok |-> TRUE, alloc_fail_at |-> 0]
    /\ apc = "off"
    /\ handle = "none"
    /\ claimed = FALSE
    /\ unpkarc = "none"
    /\ entries = <<>>
    /\ fat_buffer = <<>>
    /\ fnt_buffer = <<>>
    /\ stack = <<>>
    /\ load_ret = "none"
    /\ fat_indexed = {}
    /\ fnt_outside = FALSE
    /\ fnt_ub = FALSE

\* x - y on Uint32
U32Sub(x, y) ==
    LET lo == x.lo - y.lo
        borrow == IF lo < 0 THEN 1 ELSE 0
    IN  [lo |-> (lo + 65536) % 65536, hi |-> (x.hi - y.hi - borrow + 65536) % 65536]

\* sizeof(fat_entry_t), sizeof(fnt_entry_main_t), sizeof(overlay_table_entry_t)
SizeofFatEntry == 8
SizeofFntEntryMain == 8
SizeofOverlayTableEntry == 32
\* the bytes read_to_buffer adds to a buffer
BufferSlack == 8
\* the length of bin/banner.bin
BannerSize == 2112

\* the byte of the image at pos: the regions' bytes, 0 between them
io_byte(image, pos) ==
    IF \E k \in 1..Len(image.regions) :
            image.regions[k].at <= pos /\ pos < image.regions[k].at + Len(image.regions[k].bytes)
    THEN LET k == CHOOSE k \in 1..Len(image.regions) :
                    image.regions[k].at <= pos
                    /\ pos < image.regions[k].at + Len(image.regions[k].bytes)
         IN  image.regions[k].bytes[pos - image.regions[k].at + 1]
    ELSE 0

\* io->seek then __PHYSFS_readAll: all len bytes at offset, or failure
io_readAll_ok(image, offset, len) == offset + len <= image.size

\* read_to_buffer: the buffer, len bytes of the image and 8 bytes of zeros
read_to_buffer_ok(image, offset, len) == io_readAll_ok(image, offset, len)
read_to_buffer(image, offset, len) ==
    [k \in 1..(len + BufferSlack) |-> IF k <= len THEN io_byte(image, offset + k - 1) ELSE 0]

\* UNPK_addEntry: the call fails, and otherwise the entry follows those added
UNPK_addEntry_ok(ents) == env.alloc_fail_at # Len(ents) + 1
UNPK_addEntry(ents, name, isdir, pos, len) ==
    Append(ents, [name |-> name, isdir |-> isdir,
                  pos |-> IF isdir THEN U32OfNat(0) ELSE pos,
                  len |-> IF isdir THEN U32OfNat(0) ELSE len])

\* ADD_FILE one after the other: the entries, and whether every call succeeded
RECURSIVE ADD_FILES(_, _)
ADD_FILES(ents, files) ==
    IF files = <<>> THEN [ok |-> TRUE, entries |-> ents]
    ELSE IF ~UNPK_addEntry_ok(ents) THEN [ok |-> FALSE, entries |-> ents]
    ELSE ADD_FILES(UNPK_addEntry(ents, files[1].name, FALSE, files[1].pos, files[1].len),
                   Tail(files))

\* start_of_fat[k]
fat_entry(buf, k) ==
    [start |-> U32OfBytes(buf[8 * k + 1], buf[8 * k + 2], buf[8 * k + 3], buf[8 * k + 4]),
     end |-> U32OfBytes(buf[8 * k + 5], buf[8 * k + 6], buf[8 * k + 7], buf[8 * k + 8])]

\* max_fat_entries
max_fat_entries(h) == h.file_allocation_table_size \div SizeofFatEntry

\* a little-endian 32-bit word of a buffer, at byte offset k (below 2^31 in the
\* tables modelled)
LE32At(buf, k) ==
    buf[k + 1] + 256 * buf[k + 2] + 65536 * buf[k + 3] + 16777216 * buf[k + 4]

\* the test before start_of_fat is read, passing an index equal to max_fat_entries
fat_index_refused_above(max, file_id) == max < file_id

\* the test of an index before start_of_fat is read at it
fat_index_refused(max, file_id) == max <= file_id

\* the loop of NDS_load_overlay_table over the table's entries, from entry k on
RECURSIVE overlay_loop(_, _, _, _, _, _, _)
overlay_loop(k, num_overlays, overlay_data, prefix, h, ents, indexed) ==
    IF k >= num_overlays THEN [ok |-> TRUE, entries |-> ents, indexed |-> indexed]
    ELSE LET overlay_id == LE32At(overlay_data, SizeofOverlayTableEntry * k)
             fat_file_id == LE32At(overlay_data, SizeofOverlayTableEntry * k + 24)
         IN  IF fat_index_refused(max_fat_entries(h), fat_file_id)
             THEN [ok |-> FALSE, entries |-> ents, indexed |-> indexed]
             ELSE IF ~UNPK_addEntry_ok(ents)
             THEN [ok |-> FALSE, entries |-> ents, indexed |-> indexed \cup {fat_file_id}]
             ELSE LET fe == fat_entry(fat_buffer, fat_file_id)
                  IN  overlay_loop(k + 1, num_overlays, overlay_data, prefix, h,
                          UNPK_addEntry(ents,
                              "bin/" \o prefix \o "_overlays/overlay_" \o ToString(overlay_id),
                              FALSE, fe.start, U32Sub(fe.end, fe.start)),
                          indexed \cup {fat_file_id})

\* NDS_load_overlay_table returning 0 for a size that is not a multiple of 32
NDS_load_overlay_table_strict(offset, size, prefix, h, ents, indexed) ==
    IF offset # 0 /\ size # 0
    THEN IF ~UNPK_addEntry_ok(ents)
         THEN [ok |-> FALSE, entries |-> ents, indexed |-> indexed]
         ELSE LET with_ovt == UNPK_addEntry(ents, "bin/" \o prefix \o "_ovt.bin", FALSE,
                                            U32OfNat(offset), U32OfNat(size))
              IN  IF size % SizeofOverlayTableEntry = 0
                  THEN IF ~read_to_buffer_ok(io, offset, size)
                       THEN [ok |-> FALSE, entries |-> with_ovt, indexed |-> indexed]
                       ELSE overlay_loop(0, size \div SizeofOverlayTableEntry,
                                         read_to_buffer(io, offset, size), prefix, h,
                                         with_ovt, indexed)
                  ELSE [ok |-> FALSE, entries |-> with_ovt, indexed |-> indexed]
    ELSE [ok |-> TRUE, entries |-> ents, indexed |-> indexed]

\* NDS_load_overlay_table
NDS_load_overlay_table(offset, size, prefix, h, ents, indexed) ==
    IF offset # 0 /\ size # 0
    THEN IF ~UNPK_addEntry_ok(ents)
         THEN [ok |-> FALSE, entries |-> ents, indexed |-> indexed]
         ELSE LET with_ovt == UNPK_addEntry(ents, "bin/" \o prefix \o "_ovt.bin", FALSE,
                                            U32OfNat(offset), U32OfNat(size))
              IN  IF size % SizeofOverlayTableEntry = 0
                  THEN IF ~read_to_buffer_ok(io, offset, size)
                       THEN [ok |-> FALSE, entries |-> with_ovt, indexed |-> indexed]
                       ELSE overlay_loop(0, size \div SizeofOverlayTableEntry,
                                         read_to_buffer(io, offset, size), prefix, h,
                                         with_ovt, indexed)
                  ELSE [ok |-> TRUE, entries |-> with_ovt, indexed |-> indexed]
    ELSE [ok |-> TRUE, entries |-> ents, indexed |-> indexed]

\* what the steps of NDS_open_archive leave alone
arc_frame ==
    /\ UNCHANGED <<header, valid, romvars, io, env>>
    /\ UNCHANGED <<lzvars, sndvars>>

\* open_archive_bails without BAIL_IF(forWriting, PHYSFS_ERR_READ_ONLY, NULL)
open_archive_bails_when_unreadable(forWriting, header_read, h) ==
    ~header_read \/ ~seems_valid_enough(h, FALSE)

\* the three bails of NDS_open_archive before *claimed = 1
open_archive_bails(forWriting, header_read, h) ==
    forWriting \/ ~header_read \/ ~seems_valid_enough(h, FALSE)

\* NDS_open_archive up to UNPK_openArchive
NDS_open_archive ==
    /\ apc = "closed"
    /\ IF open_archive_bails(env.forWriting, io_readAll_ok(io, 0, 512), header)
       THEN apc' = "done" /\ handle' = "NULL" /\ UNCHANGED <<claimed, unpkarc>>
       ELSE /\ claimed' = TRUE
            /\ IF env.open_ok
               THEN apc' = "entries" /\ unpkarc' = "open" /\ UNCHANGED handle
               ELSE apc' = "done" /\ handle' = "NULL" /\ UNCHANGED unpkarc
    /\ UNCHANGED <<entries, fat_buffer, fnt_buffer, stack, load_ret, fat_indexed,
                   fnt_outside, fnt_ub>>
    /\ arc_frame

\* a step of NDS_load_entries: on to the next position, or return 0
load_step(ok, next_apc) ==
    IF ok THEN apc' = next_apc /\ UNCHANGED load_ret
    ELSE apc' = "return" /\ load_ret' = "0"

\* NDS_load_entries: the two buffers and the five entries every cartridge has
NDS_load_entries ==
    /\ apc = "entries"
    /\ IF \/ ~read_to_buffer_ok(io, header.file_allocation_table_offset,
                                header.file_allocation_table_size)
          \/ ~read_to_buffer_ok(io, header.file_name_table_offset,
                                header.file_name_table_size)
       THEN load_step(FALSE, "none") /\ UNCHANGED <<entries, fat_buffer, fnt_buffer>>
       ELSE LET added == ADD_FILES(entries,
                    <<[name |-> "header", pos |-> U32OfNat(0),
                       len |-> U32OfNat(header.rom_size_header)],
                      [name |-> "bin/arm7.bin", pos |-> U32OfNat(header.arm7_rom_offset),
                       len |-> U32OfNat(header.arm7_size)],
                      [name |-> "bin/arm9.bin", pos |-> U32OfNat(header.arm9_rom_offset),
                       len |-> U32OfNat(header.arm9_size)],
                      [name |-> "bin/fat.bin",
                       pos |-> U32OfNat(header.file_allocation_table_offset),
                       len |-> U32OfNat(header.file_allocation_table_size)],
                      [name |-> "bin/fnt.bin",
                       pos |-> U32OfNat(header.file_name_table_offset),
                       len |-> U32OfNat(header.file_name_table_size)]>>)
            IN  /\ fat_buffer' = read_to_buffer(io, header.file_allocation_table_offset,
                                                header.file_allocation_table_size)
                /\ fnt_buffer' = read_to_buffer(io, header.file_name_table_offset,
                                                header.file_name_table_size)
                /\ entries' = added.entries
                /\ load_step(added.ok, "arm7_overlay")
    /\ UNCHANGED <<handle, claimed, unpkarc, stack, fat_indexed, fnt_outside, fnt_ub>>
    /\ arc_frame

\* NDS_load_entries: the call of NDS_load_overlay_table for arm7, then for arm9
NDS_load_entries_overlay(at, offset, size, prefix, next_apc) ==
    /\ apc = at
    /\ LET r == NDS_load_overlay_table(offset, size, prefix, header, entries, fat_indexed)
       IN  /\ entries' = r.entries
           /\ fat_indexed' = r.indexed
           /\ load_step(r.ok, next_apc)
    /\ UNCHANGED <<handle, claimed, unpkarc, fat_buffer, fnt_buffer, stack,
                   fnt_outside, fnt_ub>>
    /\ arc_frame

NDS_load_entries_arm7_overlay ==
    NDS_load_entries_overlay("arm7_overlay", header.arm7_overlay_offset,
                             header.arm7_overlay_size, "arm7", "arm9_overlay")

NDS_load_entries_arm9_overlay ==
    NDS_load_entries_overlay("arm9_overlay", header.arm9_overlay_offset,
                             header.arm9_overlay_size, "arm9", "banner")

\* NDS_load_entries: bin/banner.bin
NDS_load_entries_banner ==
    /\ apc = "banner"
    /\ IF header.icon_title_offset # 0
       THEN IF UNPK_addEntry_ok(entries)
            THEN /\ entries' = UNPK_addEntry(entries, "bin/banner.bin", FALSE,
                                   U32OfNat(header.icon_title_offset), U32OfNat(BannerSize))
                 /\ load_step(TRUE, "nitrofs")
            ELSE UNCHANGED entries /\ load_step(FALSE, "none")
       ELSE UNCHANGED entries /\ load_step(TRUE, "nitrofs")
    /\ UNCHANGED <<handle, claimed, unpkarc, fat_buffer, fnt_buffer, stack, fat_indexed,
                   fnt_outside, fnt_ub>>
    /\ arc_frame

---------------------------------------------------------------------------
(* The walk of the file name table: recurse_dir_table *)

\* the deepest nesting of recurse_dir_table calls the stack has room for
MaxDepth == 4

\* the values a byte read outside fnt_buffer is given
GarbageBytes == {0, 1}

\* fnt_entry_sub_t: IS_DIR_MASK, LEN_MASK, and the base of sub-directory ids
IS_DIR_MASK == 128
LEN_MASK == 127
SubDirIdBase == 61440

\* the byte at offset k from start_of_fnt
fnt_at(k, garbage) ==
    IF 0 <= k /\ k < Len(fnt_buffer) THEN fnt_buffer[k + 1] ELSE garbage

\* n bytes at offset k: some of them outside the table that was read, outside the buffer
fnt_span_outside(k, n) == n > 0 /\ (k < 0 \/ k + n > header.file_name_table_size)
fnt_span_ub(k, n) == n > 0 /\ (k < 0 \/ k + n > Len(fnt_buffer))

\* ((fnt_entry_main_t*)start_of_fnt)[k].endian_correct()
fnt_entry_main(k, garbage) ==
    LET at == SizeofFntEntryMain * k IN
    [sub_entry_offset |-> fnt_at(at, garbage) + 256 * fnt_at(at + 1, garbage)
                          + 65536 * fnt_at(at + 2, garbage)
                          + 16777216 * fnt_at(at + 3, garbage),
     first_fat_entry_id |-> fnt_at(at + 4, garbage) + 256 * fnt_at(at + 5, garbage),
     outside |-> fnt_span_outside(at, SizeofFntEntryMain),
     ub |-> fnt_span_ub(at, SizeofFntEntryMain)]

\* the characters of file names
Chr(c) ==
    LET Letters == (97 :> "a" @@ 98 :> "b" @@ 99 :> "c" @@ 100 :> "d" @@ 101 :> "e")
    IN  IF c \in DOMAIN Letters THEN Letters[c] ELSE "<" \o ToString(c) \o ">"

\* the C string in a character buffer: the characters before the first NUL
RECURSIVE CStr(_)
CStr(chars) ==
    IF chars = <<>> \/ Head(chars) = 0 THEN ""
    ELSE Chr(Head(chars)) \o CStr(Tail(chars))

\* fnt_entry_subtable_parse with *current at offset k
fnt_entry_subtable_parse(k, garbage) ==
    LET type == fnt_at(k, garbage)
        name_len == type % (LEN_MASK + 1)
        is_dir == (type \div IS_DIR_MASK) % 2 = 1
        read == 1 + name_len + (IF is_dir THEN 2 ELSE 0)
    IN  IF name_len = 0
        THEN [more |-> FALSE, outside |-> fnt_span_outside(k, 1), ub |-> fnt_span_ub(k, 1)]
        ELSE [more |-> TRUE,
              is_dir |-> is_dir,
              name |-> CStr([j \in 1..name_len |-> fnt_at(k + j, garbage)]),
              sub_dir_id |-> IF is_dir
                             THEN fnt_at(k + name_len + 1, garbage)
                                  + 256 * fnt_at(k + name_len + 2, garbage) - SubDirIdBase
                             ELSE 0,
              next |-> k + read,
              outside |-> fnt_span_outside(k, read),
              ub |-> fnt_span_ub(k, read)]

\* dir_frame with file_id starting at 0 in every directory
dir_frame_from_zero(parent, entry) ==
    [name |-> parent \o "/", next |-> entry.sub_entry_offset, file_id |-> 0]

\* the locals of a recurse_dir_table call: name up to the '/', next, file_id
dir_frame(parent, entry) ==
    [name |-> parent \o "/", next |-> entry.sub_entry_offset,
     file_id |-> entry.first_fat_entry_id]

\* recurse_dir_table returns 0 and every caller passes the 0 on
walk_fails ==
    /\ apc' = "return"
    /\ load_ret' = "0"
    /\ stack' = <<>>

\* the process ends
walk_crashes ==
    /\ apc' = "done"
    /\ handle' = "crash"
    /\ UNCHANGED <<load_ret, stack, entries, fat_indexed>>

\* NDS_load_entries: the call of recurse_dir_table for the root
NDS_load_entries_nitrofs ==
    /\ apc = "nitrofs"
    /\ IF max_fat_entries(header) < 1
       THEN walk_fails /\ UNCHANGED fnt_outside
       ELSE LET root == fnt_entry_main(0, 0)
            IN  /\ stack' = <<dir_frame("nitrofs", root)>>
                /\ fnt_outside' = (fnt_outside \/ root.outside)
                /\ apc' = "walk"
                /\ UNCHANGED load_ret
    /\ UNCHANGED <<handle, claimed, unpkarc, entries, fat_buffer, fnt_buffer,
                   fat_indexed, fnt_ub>>
    /\ arc_frame

\* the innermost call and what fnt_entry_subtable_parse finds at its cursor
Top == stack[Len(stack)]
SetTop(f) == [stack EXCEPT ![Len(stack)] = f]

\* recurse_dir_table: fnt_entry_subtable_parse returns false, the call returns 1
recurse_dir_table_return ==
    /\ apc = "walk"
    /\ \E garbage \in GarbageBytes :
        LET p == fnt_entry_subtable_parse(Top.next, garbage) IN
        /\ ~p.more
        /\ fnt_outside' = (fnt_outside \/ p.outside)
        /\ fnt_ub' = (fnt_ub \/ p.ub)
        /\ \E survives \in Survives(p.ub) :
            IF ~survives THEN walk_crashes
            ELSE /\ stack' = SubSeq(stack, 1, Len(stack) - 1)
                 /\ IF Len(stack) = 1
                    THEN apc' = "return" /\ load_ret' = "1"
                    ELSE UNCHANGED <<apc, load_ret>>
                 /\ UNCHANGED <<handle, entries, fat_indexed>>
    /\ UNCHANGED <<claimed, unpkarc, fat_buffer, fnt_buffer>>
    /\ arc_frame

\* recurse_dir_table: a file
recurse_dir_table_file ==
    /\ apc = "walk"
    /\ \E garbage \in GarbageBytes :
        LET p == fnt_entry_subtable_parse(Top.next, garbage) IN
        /\ p.more
        /\ ~p.is_dir
        /\ fnt_outside' = (fnt_outside \/ p.outside)
        /\ fnt_ub' = (fnt_ub \/ p.ub)
        /\ \E survives \in Survives(p.ub) :
            IF ~survives THEN walk_crashes
            ELSE IF fat_index_refused(max_fat_entries(header), Top.file_id)
            THEN walk_fails /\ UNCHANGED <<handle, entries, fat_indexed>>
            ELSE /\ fat_indexed' = fat_indexed \cup {Top.file_id}
                 /\ IF ~UNPK_addEntry_ok(entries)
                    THEN walk_fails /\ UNCHANGED <<handle, entries>>
                    ELSE LET fe == fat_entry(fat_buffer, Top.file_id) IN
                         /\ entries' = UNPK_addEntry(entries, Top.name \o p.name, FALSE,
                                                     fe.start, U32Sub(fe.end, fe.start))
                         /\ stack' = SetTop([Top EXCEPT !.next = p.next,
                                                        !.file_id = Top.file_id + 1])
                         /\ UNCHANGED <<apc, load_ret, handle>>
    /\ UNCHANGED <<claimed, unpkarc, fat_buffer, fnt_buffer>>
    /\ arc_frame

\* recurse_dir_table: a sub-directory, up to the first parse of the nested call
recurse_dir_table_dir ==
    /\ apc = "walk"
    /\ \E garbage \in GarbageBytes :
        LET p == fnt_entry_subtable_parse(Top.next, garbage) IN
        /\ p.more
        /\ p.is_dir
        /\ LET next_dir_table == fnt_entry_main(p.sub_dir_id, garbage)
               reached == UNPK_addEntry_ok(entries)
               ub == p.ub \/ (reached /\ next_dir_table.ub)
           IN  /\ fnt_outside' = (fnt_outside \/ p.outside
                                    \/ (reached /\ next_dir_table.outside))
               /\ fnt_ub' = (fnt_ub \/ ub)
               /\ \E survives \in Survives(ub) :
                    IF ~survives THEN walk_crashes
                    ELSE IF ~reached
                    THEN walk_fails /\ UNCHANGED <<handle, entries, fat_indexed>>
                    ELSE IF Len(stack) >= MaxDepth
                    THEN /\ entries' = UNPK_addEntry(entries, Top.name \o p.name, TRUE,
                                                     U32OfNat(0), U32OfNat(0))
                         /\ apc' = "done"
                         /\ handle' = "crash"
                         /\ UNCHANGED <<load_ret, stack, fat_indexed>>
                    ELSE /\ entries' = UNPK_addEntry(entries, Top.name \o p.name, TRUE,
                                                     U32OfNat(0), U32OfNat(0))
                         /\ stack' = Append(SetTop([Top EXCEPT !.next = p.next]),
                                            dir_frame(Top.name \o p.name, next_dir_table))
                         /\ UNCHANGED <<apc, load_ret, handle, fat_indexed>>
    /\ UNCHANGED <<claimed, unpkarc, fat_buffer, fnt_buffer>>
    /\ arc_frame

\* NDS_open_archive returning unpkarc whatever NDS_load_entries returned
open_archive_result_unchecked(loaded) == "unpkarc"

\* NDS_open_archive: the value returned after NDS_load_entries
open_archive_result(loaded) == IF loaded = "0" THEN "NULL" ELSE "unpkarc"

\* NDS_open_archive after NDS_load_entries: abandon the archive, or return it
NDS_open_archive_return ==
    /\ apc = "return"
    /\ apc' = "done"
    /\ handle' = open_archive_result(load_ret)
    /\ IF load_ret = "0"
       THEN unpkarc' = "abandoned" /\ entries' = <<>>
       ELSE UNCHANGED <<unpkarc, entries>>
    /\ UNCHANGED <<claimed, fat_buffer, fnt_buffer, stack, load_ret, fat_indexed,
                   fnt_outside, fnt_ub>>
    /\ arc_frame

---------------------------------------------------------------------------
(* ROM identification: src/util/nds.cpp *)

\* roms_kiosk: "A76E" 0
roms_kiosk == <<[code |-> <<65, 55, 54, 69, 0>>, ver |-> 0]>>

\* roms_release: "AMHE" 0 1, "AMHP" 0 1, "AMHJ" 0 1, "AMHK" 0
roms_release ==
    <<[code |-> <<65, 77, 72, 69, 0>>, ver |-> 0], [code |-> <<65, 77, 72, 69, 0>>, ver |-> 1],
      [code |-> <<65, 77, 72, 80, 0>>, ver |-> 0], [code |-> <<65, 77, 72, 80, 0>>, ver |-> 1],
      [code |-> <<65, 77, 72, 74, 0>>, ver |-> 0], [code |-> <<65, 77, 72, 74, 0>>, ver |-> 1],
      [code |-> <<65, 77, 72, 75, 0>>, ver |-> 0]>>

\* roms_first_hunt: "AMFE" 0, "AMFP" 0
roms_first_hunt ==
    <<[code |-> <<65, 77, 70, 69, 0>>, ver |-> 0], [code |-> <<65, 77, 70, 80, 0>>, ver |-> 0]>>

\* strncmp with the first n - 1 characters only
RECURSIVE strncmp_one_short(_, _, _, _)
strncmp_one_short(s1, s2, k, n) ==
    IF k > n - 1 THEN 0
    ELSE IF s1[k] # s2[k] THEN s1[k] - s2[k]
    ELSE IF s1[k] = 0 THEN 0
    ELSE strncmp_one_short(s1, s2, k + 1, n)

\* strncmp(s1, s2, n) from character k on: the difference of the first characters
\* that differ, 0 when a NUL or the n-th character is reached without one
RECURSIVE strncmp(_, _, _, _)
strncmp(s1, s2, k, n) ==
    IF k > n THEN 0
    ELSE IF s1[k] # s2[k] THEN s1[k] - s2[k]
    ELSE IF s1[k] = 0 THEN 0
    ELSE strncmp(s1, s2, k + 1, n)

\* the loop the three predicates share
rom_in_table(h, roms) ==
    \E k \in 1..Len(roms) :
        strncmp(h.game_code, roms[k].code, 1, 4) = 0 /\ h.rom_version = roms[k].ver

is_mph_first_hunt(h) == rom_in_table(h, roms_first_hunt)
is_mph_kiosk(h) == rom_in_table(h, roms_kiosk)
is_mph_release(h) == rom_in_table(h, roms_release)
is_mph_recognized(h) == is_mph_release(h) \/ is_mph_first_hunt(h) \/ is_mph_kiosk(h)

RomPredicates == {"release", "first_hunt", "kiosk", "recognized"}
NotAsked == [p \in RomPredicates |-> "none"]

\* a caller asks one predicate about the header and keeps the answer
rom_answer(p, r) ==
    /\ header # <<>>
    /\ mph[p] = "none"
    /\ mph' = [mph EXCEPT ![p] = IF r THEN "true" ELSE "false"]
    /\ UNCHANGED <<header, valid>>
    /\ UNCHANGED arcvars
    /\ UNCHANGED <<lzvars, sndvars>>

call_is_mph_first_hunt == rom_answer("first_hunt", is_mph_first_hunt(header))
call_is_mph_kiosk == rom_answer("kiosk", is_mph_kiosk(header))
call_is_mph_release == rom_answer("release", is_mph_release(header))
call_is_mph_recognized == rom_answer("recognized", is_mph_recognized(header))

---------------------------------------------------------------------------
(* The SNDFILE archive extractor: src/util/archive.cpp *)

\* archive_extract_entries is not called
SndIdle ==
    /\ snd_in = <<>>
    /\ snd_out = <<>>
    /\ snd_i = 0
    /\ snd_ret = "idle"
    /\ snd_oob = FALSE

SizeofHeaderArchive == 32
SizeofArchiveFileEntry == 64
SizeofFname == 32

\* "SNDFILE\0", with the terminator of the string literal
MAGIC == <<83, 78, 68, 70, 73, 76, 69, 0, 0>>

\* the Uint32 stored big-endian in the four bytes from byte k on
BE32At(bytes, k) == U32OfBytes(bytes[k + 4], bytes[k + 3], bytes[k + 2], bytes[k + 1])

\* header_archive_t::endian_correct on the first bytes of in
header_archive(in) ==
    [magic |-> SubSeq(in, 1, 8), file_count |-> BE32At(in, 8), archive_size |-> BE32At(in, 12)]

\* archive_file_entry_t::endian_correct on file_entries[k]
archive_file_entry(in, k) ==
    LET at == SizeofHeaderArchive + SizeofArchiveFileEntry * k
    IN  [fname |-> SubSeq(in, at + 1, at + SizeofFname),
         offset |-> BE32At(in, at + 32),
         size_padded |-> BE32At(in, at + 36),
         size_target |-> BE32At(in, at + 40)]

\* a Uint32 compared with in.size(), a size_t of 64 bits that is below 2^16 here
U32AtMost(x, size) == x.hi = 0 /\ x.lo <= size

\* in.size() > sizeof(header_archive_t) + sizeof(archive_file_entry_t) * file_count,
\* accepting an input that ends with its entry table
entry_table_fits_or_ends(size, file_count) ==
    /\ file_count.hi = 0
    /\ size >= SizeofHeaderArchive + SizeofArchiveFileEntry * file_count.lo

\* in.size() > sizeof(header_archive_t) + sizeof(archive_file_entry_t) * file_count,
\* computed in size_t without wrapping
entry_table_fits(size, file_count) ==
    /\ file_count.hi = 0
    /\ size > SizeofHeaderArchive + SizeofArchiveFileEntry * file_count.lo

\* the bail_asserts of archive_extract_entries before out.clear()
archive_header_ok(in) ==
    /\ Len(in) >= SizeofHeaderArchive
    /\ strncmp(header_archive(in).magic, MAGIC, 1, 8) = 0
    /\ entry_table_fits(Len(in), header_archive(in).file_count)
    /\ header_archive(in).archive_size = U32OfNat(Len(in))

\* archive_extract_entries up to the loop
archive_extract_entries ==
    /\ snd_ret = "none"
    /\ IF archive_header_ok(snd_in)
       THEN /\ snd_out' = <<>>
            /\ snd_i' = 0
            /\ snd_ret' = "loop"
       ELSE /\ snd_ret' = "false"
            /\ UNCHANGED <<snd_out, snd_i>>
    /\ UNCHANGED <<snd_in, snd_oob>>
    /\ UNCHANGED <<lzvars, ndsvars>>

\* the bail_asserts on an entry: offset <= in.size(), and offset + size_target, a
\* Uint32 sum, <= in.size()
archive_entry_ok(current, size) ==
    /\ U32AtMost(current.offset, size)
    /\ U32AtMost(U32Add(current.offset, current.size_target), size)

\* entry.data after resize(size_target) and memcpy from in.data() + offset: the
\* bytes of in from offset on, and one indeterminate element for all the bytes
\* read after the last byte of in
archive_entry_data(in, current) ==
    IF U32AtMost(current.size_target, Len(in) - current.offset.lo)
    THEN SubSeq(in, current.offset.lo + 1, current.offset.lo + current.size_target.lo)
    ELSE SubSeq(in, current.offset.lo + 1, Len(in)) \o <<Indeterminate>>

\* one iteration of the loop of archive_extract_entries, or its end
archive_extract_entries_loop ==
    /\ snd_ret = "loop"
    /\ LET file_count == header_archive(snd_in).file_count
           current == archive_file_entry(snd_in, snd_i)
           outside == ~U32AtMost(current.size_target, Len(snd_in) - current.offset.lo)
           entry == [fname |-> current.fname, size |-> current.size_target,
                     data |-> archive_entry_data(snd_in, current)]
       IN  IF snd_i >= file_count.lo
           THEN /\ snd_ret' = "true"
                /\ UNCHANGED <<snd_out, snd_i, snd_oob>>
           ELSE IF ~archive_entry_ok(current, Len(snd_in))
           THEN /\ snd_ret' = "false"
                /\ UNCHANGED <<snd_out, snd_i, snd_oob>>
           ELSE \/ /\ outside
                   /\ snd_ret' = "bad_alloc"
                   /\ UNCHANGED <<snd_out, snd_i, snd_oob>>
                \/ /\ outside
                   /\ snd_ret' = "crash"
                   /\ snd_oob' = TRUE
                   /\ UNCHANGED <<snd_out, snd_i>>
                \/ /\ snd_out' = Append(snd_out, entry)
                   /\ snd_i' = snd_i + 1
                   /\ snd_oob' = (snd_oob \/ outside)
                   /\ UNCHANGED snd_ret
    /\ UNCHANGED snd_in
    /\ UNCHANGED <<lzvars, ndsvars>>

---------------------------------------------------------------------------
(* The inputs decompress_lz is called on *)

\* every sequence over S of length at most n
SeqsUpTo(S, n) == UNION {[1..k -> S] : k \in 0..n}

\* the magic bytes tried: LZ10, LZ11 and one that is neither
Magics == {16, 17, 18}

\* the three size bytes tried: every small size, and one in each higher byte
SizeFields == {<<s, 0, 0>> : s \in 0..MaxDeclared} \cup {<<0, 1, 0>>, <<0, 0, 1>>}

\* spec.md section 8, scenarios 1 and 2, and scenario 2 with a declared size of 5
Scenario1 == <<16, 4, 0, 0, 0, 65, 66, 67, 68>>
Scenario2 == <<16, 6, 0, 0, 32, 65, 66, 0, 1>>
Scenario2Size5 == <<16, 5, 0, 0, 32, 65, 66, 0, 1>>

\* inputs shorter than the header; every body under the two decoders' magics; the
\* shortest bodies under the other magic; the scenarios
NormalInputs ==
    {SubSeq(<<m, 1, 0, 0>>, 1, k) : m \in Magics, k \in 0..3}
    \cup {<<m>> \o s \o body : m \in {16, 17}, s \in SizeFields,
                               body \in SeqsUpTo(ByteVals, MaxBody)}
    \cup {<<18>> \o s \o body : s \in SizeFields, body \in SeqsUpTo(ByteVals, 1)}
    \cup {Scenario1, Scenario2, Scenario2Size5}

\* longest overlay payload enumerated exhaustively
MaxOverlayBody == 3

\* overlay streams, in the order the decoder reads them: three literals and one
\* back-reference of disp 3 and count 11, 3 and 12
OverlayStreams ==
    {<<16, 65, 66, 1, 128, 0>>, <<16, 65, 66, 1, 0, 0>>, <<16, 65, 66, 1, 144, 0>>}

OverlayPayloads ==
    SeqsUpTo(ByteVals, MaxOverlayBody) \cup {Reverse(s) : s \in OverlayStreams}

\* start_delta: 0, 1, 2^32 - 8 and 2^32 - 1
StartDeltas == {<<0, 0, 0, 0>>, <<1, 0, 0, 0>>, <<248, 255, 255, 255>>,
                <<255, 255, 255, 255>>}

\* the padding byte: the footer alone, none, one more than the footer, more than end_delta
Paddings == {8, 0, 9, 255}

OverlayFooter(e, pad, sd) == <<e % 256, (e \div 256) % 256, e \div 65536, pad>> \o sd

\* prefix, payload and footer; end_delta covers payload and footer, or one byte more
OverlayInputs ==
    {SubSeq(<<0, 0, 0, 8, 0, 0, 0, 0>>, 1, k) : k \in {0, 7}}
    \cup {pre \o pay \o OverlayFooter(Len(pay) + 8 + more, pad, sd) :
            pre \in {<<>>, <<67>>}, pay \in OverlayPayloads, more \in {0, 1},
            pad \in Paddings, sd \in StartDeltas}

\* the header the LZSS specification leaves untouched
NoHeader == <<>>

InitLzss ==
    /\ is_overlay \in BOOLEAN
    /\ _in \in IF is_overlay THEN OverlayInputs ELSE NormalInputs
    /\ _out \in {<<>>, <<67>>}
    /\ ret = "none"
    /\ pc = "idle"
    /\ algorithm = "none"
    /\ flipped_data = <<>>
    /\ uncompressed_data = <<>>
    /\ decompressed_size = U32OfNat(0)
    /\ iter = 0
    /\ b = 0
    /\ i = 0
    /\ lz_ret = "none"
    /\ oob_read = FALSE
    /\ underflow_read = FALSE
    /\ truncated = FALSE
    /\ header = NoHeader
    /\ valid = [c \in BOOLEAN |-> "none"]
    /\ mph = NotAsked
    /\ ArcClosed
    /\ SndIdle

\* a caller that, after a normal-mode call succeeded having consumed its whole
\* input and read nothing outside any vector, calls decompress_lz again on the
\* same input with its last byte removed
decompress_lz_truncated ==
    /\ pc = "done"
    /\ ret = "true"
    /\ ~is_overlay
    /\ ~truncated
    /\ ~oob_read /\ ~underflow_read
    /\ iter = Len(_in)
    /\ _in' = SubSeq(_in, 1, Len(_in) - 1)
    /\ truncated' = TRUE
    /\ pc' = "idle"
    /\ ret' = "none"
    /\ lz_ret' = "none"
    /\ UNCHANGED <<is_overlay, _out, algorithm, flipped_data, uncompressed_data,
                   decompressed_size, iter, b, i, oob_read, underflow_read>>
    /\ UNCHANGED <<ndsvars, sndvars>>

NextLzss ==
    \/ decompress_lz
    \/ lz_flag_byte
    \/ lz_literal
    \/ lz10_backref
    \/ lz11_backref
    \/ lz_end
    \/ decompress_lz_overlay_tail
    \/ decompress_lz_truncated

SpecLzss == InitLzss /\ [][NextLzss]_vars

\* the statements of one call, which run one after the other until it returns;
\* calling again is up to the caller
decompress_lz_step ==
    \/ decompress_lz
    \/ lz_flag_byte
    \/ lz_literal
    \/ lz10_backref
    \/ lz11_backref
    \/ lz_end
    \/ decompress_lz_overlay_tail

\* longest body, and overlay input beyond the footer, of the calls followed to
\* their end
MaxLiveBody == 2

\* the calls followed to their end: the short inputs of both modes, the scenarios
\* and the overlay streams, into an empty _out
InitLzssLive ==
    /\ InitLzss
    /\ _out = <<>>
    /\ \/ Len(_in) <= (IF is_overlay THEN 7 ELSE 4) + MaxLiveBody
       \/ _in \in {Scenario1, Scenario2, Scenario2Size5}
       \/ is_overlay /\ \E st \in OverlayStreams : SubSeq(_in, 1, 6) = Reverse(st)

\* a call that was made runs on
SpecLzssLive ==
    InitLzssLive /\ [][NextLzss]_vars /\ WF_vars(decompress_lz_step)

---------------------------------------------------------------------------
(* The headers seems_valid_enough is asked about *)

\* an ARM9 or ARM7 binary: accepted, and with each one of its four fields off
ArmFields ==
    {[rom_offset |-> 16384, address_entry |-> MainRamBase,
      address_ram |-> MainRamBase, size |-> 4096],
     [rom_offset |-> 16384, address_entry |-> MainRamBase - 1,
      address_ram |-> MainRamBase, size |-> 4096],
     [rom_offset |-> 16384, address_entry |-> MainRamBase,
      address_ram |-> MainRamBase - 1, size |-> 4096],
     [rom_offset |-> 16384, address_entry |-> MainRamBase,
      address_ram |-> MainRamBase, size |-> 0],
     [rom_offset |-> 256, address_entry |-> MainRamBase,
      address_ram |-> MainRamBase, size |-> 4096]}

ValidArm == [rom_offset |-> 16384, address_entry |-> MainRamBase,
             address_ram |-> MainRamBase, size |-> 4096]

\* the two binaries: at most one of them off
ArmPairs == {<<a9, a7>> \in ArmFields \X ArmFields : a9 = ValidArm \/ a7 = ValidArm}

\* a table: absent, present, and an offset without a size
TableFields == {[offset |-> 0, size |-> 0], [offset |-> 32768, size |-> 64],
                [offset |-> 32768, size |-> 0]}

\* "AMHE" and "XXXX"
GameCodes == {<<65, 77, 72, 69>>, <<88, 88, 88, 88>>}

HeaderOf(arm, fnt, fat, ov9, ov7, icon, hsize, code, crc) ==
    [game_code |-> code, rom_version |-> 0,
     arm9_rom_offset |-> arm[1].rom_offset, arm9_address_entry |-> arm[1].address_entry,
     arm9_address_ram |-> arm[1].address_ram, arm9_size |-> arm[1].size,
     arm7_rom_offset |-> arm[2].rom_offset, arm7_address_entry |-> arm[2].address_entry,
     arm7_address_ram |-> arm[2].address_ram, arm7_size |-> arm[2].size,
     file_name_table_offset |-> fnt.offset, file_name_table_size |-> fnt.size,
     file_allocation_table_offset |-> fat.offset, file_allocation_table_size |-> fat.size,
     arm9_overlay_offset |-> ov9.offset, arm9_overlay_size |-> ov9.size,
     arm7_overlay_offset |-> ov7.offset, arm7_overlay_size |-> ov7.size,
     icon_title_offset |-> icon, rom_size_header |-> hsize, header_crc16 |-> crc]

\* the header with its own CRC-16 stored, and with the low bit of that CRC flipped
WithCrc(h) ==
    LET crc == compute_header_crc16(h)
    IN  {[h EXCEPT !.header_crc16 = crc],
         [h EXCEPT !.header_crc16 = Xor16(crc, 1)]}

Absent == [offset |-> 0, size |-> 0]
Present == [offset |-> 32768, size |-> 64]
OffsetOnly == [offset |-> 32768, size |-> 0]

IconOffsets == {0, MinIconTitleOffset - 1, MinIconTitleOffset}

\* every combination of the four tables under accepted binaries and header size;
\* every binary and header size under three combinations of the tables
HeaderShapes ==
    {HeaderOf(<<ValidArm, ValidArm>>, fnt, fat, ov9, ov7, icon, 512, code, 0) :
        fnt \in TableFields, fat \in TableFields, ov9 \in TableFields,
        ov7 \in TableFields, icon \in IconOffsets, code \in {<<65, 77, 72, 69>>}}
    \cup
    {HeaderOf(arm, t, t, t, t, icon, hsize, code, 0) :
        arm \in ArmPairs, t \in TableFields, icon \in IconOffsets,
        hsize \in {OffsetOfHeaderCrc16, 512}, code \in GameCodes}

Headers == UNION {WithCrc(h) : h \in HeaderShapes}

InitNds ==
    /\ header \in Headers
    /\ valid = [c \in BOOLEAN |-> "none"]
    /\ mph = NotAsked
    /\ ArcClosed
    /\ SndIdle
    /\ is_overlay = FALSE
    /\ _in = <<>>
    /\ _out = <<>>
    /\ ret = "none"
    /\ pc = "off"
    /\ algorithm = "none"
    /\ flipped_data = <<>>
    /\ uncompressed_data = <<>>
    /\ decompressed_size = U32OfNat(0)
    /\ iter = 0
    /\ b = 0
    /\ i = 0
    /\ lz_ret = "none"
    /\ oob_read = FALSE
    /\ underflow_read = FALSE
    /\ truncated = FALSE

NextNds == call_seems_valid_enough

SpecNds == InitNds /\ [][NextNds]_vars

---------------------------------------------------------------------------
(* Claims about decompress_lz, checked under SpecLzss *)

Succeeded == pc = "done" /\ ret = "true"

\* the sizes an input declares, read from its bytes
DeclaredNormal(in) == in[2] + 256 * in[3] + 65536 * in[4]
FooterEndDelta(in) == in[Len(in) - 7] + 256 * in[Len(in) - 6] + 65536 * in[Len(in) - 5]
FooterStartLo(in) == in[Len(in) - 3] + 256 * in[Len(in) - 2]
FooterStartHi(in) == in[Len(in) - 1] + 256 * in[Len(in)]

\* n = start_delta + end_delta, as integers
IsFooterSum(n, in) == FooterStartHi(in) = 0 /\ n = FooterStartLo(in) + FooterEndDelta(in)

\* n = (start_delta + end_delta) mod 2^32
IsFooterSumMod32(n, in) ==
    LET lo == FooterStartLo(in) + (FooterEndDelta(in) % 65536)
        hi == FooterStartHi(in) + (FooterEndDelta(in) \div 65536) + (lo \div 65536)
    IN  n % 65536 = lo % 65536 /\ n \div 65536 = hi % 65536

\* C1 as stated: on success the length of the output is the declared size, in
\* normal mode the 24-bit size of bytes 1..3 and in overlay mode
\* start_delta + (end_delta & 0xFFFFFF)
C1_LengthIsDeclared ==
    Succeeded =>
        IF is_overlay THEN IsFooterSum(Len(_out), _in)
        ELSE Len(_out) = DeclaredNormal(_in)

\* C1 amended: on success, in normal mode the length of the output is the 24-bit
\* size of bytes 1..3; in overlay mode the decoded block has
\* (start_delta + (end_delta & 0xFFFFFF)) mod 2^32 bytes and the output is the
\* filelen - end_delta bytes of input before the compressed region followed by
\* that block
C1_LengthIsPrefixPlusDeclared ==
    Succeeded =>
        IF is_overlay
        THEN /\ IsFooterSumMod32(Len(uncompressed_data), _in)
             /\ Len(_out) = (Len(_in) - FooterEndDelta(_in)) + Len(uncompressed_data)
        ELSE Len(_out) = DeclaredNormal(_in)

\* an overlay call succeeded on an input with a byte before the compressed region
C1_Witness ==
    /\ Succeeded
    /\ is_overlay
    /\ Len(_in) > FooterEndDelta(_in)
    /\ FooterStartHi(_in) = 0

\* C2 as stated: a normal-mode LZ11 input whose decoding produced exactly the
\* declared number of bytes, reading nothing outside the input, is a success
C2_Lz11FullOutputSucceeds ==
    (/\ pc = "done"
     /\ ~is_overlay
     /\ algorithm = "lz11"
     /\ ~oob_read
     /\ Len(_out) = DeclaredNormal(_in)) => ret = "true"

\* C3 as stated: the decoders read every input byte at an index below len(input)
C3_ReadsInsideInput == ~oob_read

\* C4 as stated: a back-reference with disp > len(output) is never executed, and
\* the call fails
C4_NoCopyBeforeOutput == ~underflow_read

\* C5 as stated: a valid input with its last byte removed fails, and the call
\* reads nothing outside the shortened input
C5_TruncatedFails ==
    (truncated /\ pc = "done") => (ret = "false" /\ ~oob_read)

\* C6: in normal mode an input shorter than 4 bytes or with a first byte other
\* than 0x10 and 0x11 fails and leaves the output empty; otherwise the decoder is
\* LZ10 for 0x10 and LZ11 for 0x11, the declared size is the little-endian 24-bit
\* integer of bytes 1..3, and decoding starts at offset 4
C6_NormalDispatch ==
    [][(pc = "idle" /\ ~is_overlay) =>
        IF Len(_in) < 4 \/ _in[1] \notin {16, 17}
        THEN pc' = "done" /\ ret' = "false" /\ _out' = <<>>
        ELSE /\ pc' = "loop"
             /\ algorithm' = (IF _in[1] = 16 THEN "lz10" ELSE "lz11")
             /\ decompressed_size'.lo + 65536 * decompressed_size'.hi
                    = DeclaredNormal(_in)
             /\ iter' = 4
             /\ _out' = <<>>]_vars

\* the LZ11 decoder is about to read its first flag byte at offset 4, for a
\* declared size of 65536
C6_Witness ==
    /\ ~is_overlay
    /\ pc = "loop"
    /\ algorithm = "lz11"
    /\ iter = 4
    /\ decompressed_size = [lo |-> 0, hi |-> 1]
    /\ _in[4] = 1

\* the number of 0 bits of a flag byte before its first 1 bit (8 when there is none)
RECURSIVE LeadingLiterals(_, _)
LeadingLiterals(flag, bit) ==
    IF bit < 0 THEN 8
    ELSE IF (flag \div (2 ^ bit)) % 2 = 1 THEN 7 - bit
    ELSE LeadingLiterals(flag, bit - 1)

\* an LZ10 input that is one flag byte, k >= 1 literals and one back-reference
\* with disp <= k, declaring k + count bytes
LiteralsThenBackref(in) ==
    /\ Len(in) >= 8
    /\ in[1] = 16
    /\ LET k == LeadingLiterals(in[5], 7) IN
       /\ k \in 1..7
       /\ Len(in) = 5 + k + 2
       /\ LET code == in[5 + k + 1] * 256 + in[5 + k + 2] IN
          /\ (code % 4096) + 1 <= k
          /\ DeclaredNormal(in) = k + (code \div 4096) + 3

\* the literals followed by count bytes copied from len(output) - disp
LiteralsThenCopy(in) ==
    LET k == LeadingLiterals(in[5], 7)
        code == in[5 + k + 1] * 256 + in[5 + k + 2]
        count == (code \div 4096) + 3
        disp == (code % 4096) + 1
    IN  [j \in 1..(k + count) |->
            IF j <= k THEN in[5 + j]
            ELSE in[5 + (k - disp) + ((j - k - 1) % disp) + 1]]

\* C7 as stated: the input 10 06 00 00 20 41 42 00 01 succeeds with the output
\* 41 42 41 42 41 42, using only bytes present in the input
C7_Scenario2 ==
    (pc = "done" /\ ~is_overlay /\ _in = Scenario2) =>
        (ret = "true" /\ _out = <<65, 66, 65, 66, 65, 66>> /\ ~oob_read)

\* C7 amended: the input 10 05 00 00 20 41 42 00 01 (two literals, then a
\* back-reference of count 3 and disp 2) succeeds with the output 41 42 41 42 41;
\* and an LZ10 stream of k literals and one back-reference with disp <= k that
\* declares k + count bytes succeeds with the literals followed by count bytes
\* copied from output position len(output) - disp, reading only bytes of the input
C7_LiteralsThenBackref ==
    /\ (pc = "done" /\ ~is_overlay /\ _in = Scenario2Size5) =>
            (ret = "true" /\ _out = <<65, 66, 65, 66, 65>>)
    /\ (pc = "done" /\ ~is_overlay /\ LiteralsThenBackref(_in)) =>
            (/\ ret = "true"
             /\ _out = LiteralsThenCopy(_in)
             /\ ~oob_read
             /\ ~underflow_read)

\* the call on 10 05 00 00 20 41 42 00 01 returned
C7_Witness == pc = "done" /\ ~is_overlay /\ _in = Scenario2Size5 /\ ret = "true"

---------------------------------------------------------------------------
(* Claims about seems_valid_enough, checked under SpecNds *)

\* one of the four tables has an offset and no size
OffsetWithoutSize(h) ==
    \/ h.file_allocation_table_offset # 0 /\ h.file_allocation_table_size = 0
    \/ h.file_name_table_offset # 0 /\ h.file_name_table_size = 0
    \/ h.arm9_overlay_offset # 0 /\ h.arm9_overlay_size = 0
    \/ h.arm7_overlay_offset # 0 /\ h.arm7_overlay_size = 0

\* C8 as stated: a header with a table offset and no table size is rejected, for
\* both values of check_crc
C8_OffsetWithoutSizeRejected ==
    \A c \in BOOLEAN :
        (valid[c] # "none" /\ OffsetWithoutSize(header)) => valid[c] = "false"

\* C9 as stated: a header accepted without the CRC check whose stored CRC differs
\* from the computed one is rejected with the CRC check
C9_WrongCrcRejected ==
    (/\ valid[FALSE] = "true"
     /\ valid[TRUE] # "none"
     /\ header.header_crc16 # compute_header_crc16(header)) => valid[TRUE] = "false"

\* C10: a header accepted with check_crc = true is accepted with check_crc = false
C10_MonotoneInCheckCrc ==
    (valid[TRUE] = "true" /\ valid[FALSE] # "none") => valid[FALSE] = "true"

\* a header whose stored CRC was compared, and matched, is accepted in both calls
C10_Witness ==
    /\ valid[TRUE] = "true"
    /\ valid[FALSE] = "true"
    /\ ~OffsetWithoutSize(header)

\* the header is too short, or one of the two binaries is unusable
HeaderOrBinaryOff(h) ==
    \/ h.rom_size_header <= 350
    \/ h.arm9_address_entry < 33554432 \/ h.arm9_address_ram < 33554432
    \/ h.arm9_size = 0 \/ h.arm9_rom_offset < h.rom_size_header
    \/ h.arm7_address_entry < 33554432 \/ h.arm7_address_ram < 33554432
    \/ h.arm7_size = 0 \/ h.arm7_rom_offset < h.rom_size_header

---------------------------------------------------------------------------
(* The headers the ROM predicates are asked about, and the claim about them *)

\* the codes of the three tables, "AMH" followed by a NUL, "XXXX" and four NULs
RomCodes ==
    {<<65, 77, 72, 69>>, <<65, 77, 72, 80>>, <<65, 77, 72, 74>>, <<65, 77, 72, 75>>,
     <<65, 77, 70, 69>>, <<65, 77, 70, 80>>, <<65, 55, 54, 69>>,
     <<65, 77, 72, 0>>, <<88, 88, 88, 88>>, <<0, 0, 0, 0>>}

RomVersions == {0, 1, 2}

\* headers that differ in game_code and rom_version, and in fields the predicates
\* do not read
RomHeaders ==
    {[HeaderOf(<<arm, ValidArm>>, Absent, Absent, Absent, Absent, icon, 512, code, 0)
        EXCEPT !.rom_version = ver] :
        arm \in {ValidArm, [ValidArm EXCEPT !.size = 0]}, icon \in {0, MinIconTitleOffset},
        code \in RomCodes, ver \in RomVersions}

InitRom ==
    /\ header \in RomHeaders
    /\ valid = [c \in BOOLEAN |-> "none"]
    /\ mph = NotAsked
    /\ ArcClosed
    /\ SndIdle
    /\ is_overlay = FALSE
    /\ _in = <<>>
    /\ _out = <<>>
    /\ ret = "none"
    /\ pc = "off"
    /\ algorithm = "none"
    /\ flipped_data = <<>>
    /\ uncompressed_data = <<>>
    /\ decompressed_size = U32OfNat(0)
    /\ iter = 0
    /\ b = 0
    /\ i = 0
    /\ lz_ret = "none"
    /\ oob_read = FALSE
    /\ underflow_read = FALSE
    /\ truncated = FALSE

NextRom ==
    \/ call_is_mph_first_hunt
    \/ call_is_mph_kiosk
    \/ call_is_mph_release
    \/ call_is_mph_recognized

SpecRom == InitRom /\ [][NextRom]_vars

---------------------------------------------------------------------------
(* The cartridges NDS_open_archive is called on *)

\* where the cartridges modelled keep their tables and their files
FatOffset == 24576
FntOffset == 24832
Arm9OverlayOffset == 25088
Arm7OverlayOffset == 25344
FileData == 28672
ImageSize == 36864

\* a fat_entry_t, a fnt_entry_main_t, the sub-entries of a subtable, and an
\* overlay_table_entry_t, as stored
FatBytes(start, end) == LE32(start) \o LE32(end)
MainBytes(sub_entry_offset, first_fat_entry_id, parent_id) ==
    LE32(sub_entry_offset) \o <<first_fat_entry_id % 256, first_fat_entry_id \div 256,
                                parent_id % 256, parent_id \div 256>>
FileBytes(name) == <<Len(name)>> \o name
DirBytes(name, id) == <<IS_DIR_MASK + Len(name)>> \o name \o <<id % 256, id \div 256>>
EndBytes == <<0>>
OverlayBytes(overlay_id, fat_file_id) ==
    LE32(overlay_id) \o Zeros(20) \o LE32(fat_file_id) \o LE32(0)

\* file allocation tables: two files; the second ending before it starts; the
\* second ending after the image; one file
Fat(which) ==
    CASE which = "good" ->
            FatBytes(FileData, FileData + 16) \o FatBytes(FileData + 16, FileData + 32)
      [] which = "reversed" ->
            FatBytes(FileData, FileData + 16) \o FatBytes(FileData + 16, FileData)
      [] which = "beyond" ->
            FatBytes(FileData, FileData + 16) \o FatBytes(FileData + 16, ImageSize + 4096)
      [] which = "one" -> FatBytes(FileData, FileData + 16)
FatImages == {Fat(which) : which \in {"good", "reversed", "beyond", "one"}} \cup {<<>>}

\* file name tables
Fnt(which) ==
    CASE which = "/a /b" ->
            MainBytes(8, 0, 1) \o FileBytes(<<97>>) \o FileBytes(<<98>>) \o EndBytes
      [] which = "/d/b /a" ->
            MainBytes(16, 0, 2) \o MainBytes(23, 1, SubDirIdBase)
            \o DirBytes(<<100>>, SubDirIdBase + 1) \o FileBytes(<<97>>) \o EndBytes
            \o FileBytes(<<98>>) \o EndBytes
      [] which = "/d is the root" ->
            MainBytes(8, 0, 1) \o DirBytes(<<100>>, SubDirIdBase) \o EndBytes
      [] which = "/d/e is the root" ->
            MainBytes(16, 0, 2) \o MainBytes(21, 0, SubDirIdBase)
            \o DirBytes(<<100>>, SubDirIdBase + 1) \o EndBytes
            \o DirBytes(<<101>>, SubDirIdBase) \o EndBytes
      [] which = "/a /a" ->
            MainBytes(8, 0, 1) \o FileBytes(<<97>>) \o FileBytes(<<97>>) \o EndBytes
      [] which = "/a, no end of the subtable" -> MainBytes(8, 0, 1) \o FileBytes(<<97>>)
      [] which = "subtable far after the table" -> MainBytes(1000, 0, 1) \o EndBytes
      [] which = "/d with an id below 0xF000" ->
            MainBytes(8, 0, 1) \o DirBytes(<<100>>, 1) \o EndBytes
      [] which = "/d with an id after the main table" ->
            MainBytes(8, 0, 1) \o DirBytes(<<100>>, SubDirIdBase + 100) \o EndBytes
      [] which = "/a /b /c from FAT index 1" ->
            MainBytes(8, 1, 1) \o FileBytes(<<97>>) \o FileBytes(<<98>>)
            \o FileBytes(<<99>>) \o EndBytes
FntImages ==
    {Fnt(which) : which \in {"/a /b", "/d/b /a", "/d is the root", "/d/e is the root",
                             "/a /a", "/a, no end of the subtable",
                             "subtable far after the table", "/d with an id below 0xF000",
                             "/d with an id after the main table",
                             "/a /b /c from FAT index 1"}}
    \cup {<<>>}

\* a table of the header with the bytes stored at its offset
TableAt(offset, bytes) ==
    [offset |-> IF bytes = <<>> THEN 0 ELSE offset, size |-> Len(bytes), bytes |-> bytes]

\* overlay tables: one overlay; two with the same overlay_id; a fat_file_id that no
\* FAT modelled has; 8 bytes after the one entry; an offset without a size; none
Arm9OverlayTables ==
    {TableAt(Arm9OverlayOffset, t) :
        t \in {OverlayBytes(0, 1), OverlayBytes(0, 0) \o OverlayBytes(0, 1),
               OverlayBytes(2, 5), OverlayBytes(0, 0) \o Zeros(8), <<>>}}
    \cup {[offset |-> Arm9OverlayOffset, size |-> 0, bytes |-> <<>>]}
Arm7OverlayTables ==
    {TableAt(Arm7OverlayOffset, t) :
        t \in {OverlayBytes(1, 0), OverlayBytes(0, 0) \o Zeros(8), <<>>}}

\* the regions of an image: the tables that have bytes
RECURSIVE RegionsOf(_)
RegionsOf(tables) ==
    IF tables = <<>> THEN <<>>
    ELSE IF Head(tables).bytes = <<>> THEN RegionsOf(Tail(tables))
    ELSE <<[at |-> Head(tables).offset, bytes |-> Head(tables).bytes]>>
         \o RegionsOf(Tail(tables))

\* a cartridge: its header, and the image without the header's own bytes
Cartridge(arm9, fat, fnt, ov9, ov7, icon) ==
    [header |-> HeaderOf(<<arm9, ValidArm>>, fnt, fat, ov9, ov7, icon, 512,
                         <<65, 77, 72, 69>>, 0),
     io |-> [size |-> ImageSize, regions |-> RegionsOf(<<fat, fnt, ov9, ov7>>)]]

\* every combination of the tables, with and without a banner; one cartridge
\* with no ARM9 binary; and one with its CRC-16 stored and with a wrong one
Cartridges ==
    {Cartridge(ValidArm, TableAt(FatOffset, fat), TableAt(FntOffset, fnt), ov9, ov7, icon) :
        fat \in FatImages, fnt \in FntImages, ov9 \in Arm9OverlayTables,
        ov7 \in Arm7OverlayTables, icon \in {0, MinIconTitleOffset}}
    \cup {Cartridge([ValidArm EXCEPT !.size = 0], TableAt(FatOffset, Fat("good")),
                    TableAt(FntOffset, Fnt("/a /b")), Absent @@ [bytes |-> <<>>],
                    Absent @@ [bytes |-> <<>>], 0)}
    \cup LET c == Cartridge(ValidArm, TableAt(FatOffset, Fat("good")),
                            TableAt(FntOffset, Fnt("/a /b")), Absent @@ [bytes |-> <<>>],
                            Absent @@ [bytes |-> <<>>], 0)
         IN  {[c EXCEPT !.header = h] : h \in WithCrc(c.header)}

\* how a call goes: for writing; UNPK_openArchive fails; the n-th UNPK_addEntry
\* fails; the image ends early; or none of these
Calls ==
    {[forWriting |-> w, open_ok |-> o, alloc_fail_at |-> 0, size |-> ImageSize] :
        w \in BOOLEAN, o \in BOOLEAN}
    \cup {[forWriting |-> FALSE, open_ok |-> TRUE, alloc_fail_at |-> n, size |-> ImageSize] :
            n \in {1, 6, 7, 9}}
    \cup {[forWriting |-> FALSE, open_ok |-> TRUE, alloc_fail_at |-> 0, size |-> n] :
            n \in {100, FatOffset + 8, FntOffset + 4, Arm9OverlayOffset + 16}}

\* decompress_lz is not called
LzIdle ==
    /\ is_overlay = FALSE
    /\ _in = <<>>
    /\ _out = <<>>
    /\ ret = "none"
    /\ pc = "off"
    /\ algorithm = "none"
    /\ flipped_data = <<>>
    /\ uncompressed_data = <<>>
    /\ decompressed_size = U32OfNat(0)
    /\ iter = 0
    /\ b = 0
    /\ i = 0
    /\ lz_ret = "none"
    /\ oob_read = FALSE
    /\ underflow_read = FALSE
    /\ truncated = FALSE

InitArc ==
    /\ \E cartridge \in Cartridges, call \in Calls :
        /\ header = cartridge.header
        /\ io = [cartridge.io EXCEPT !.size = call.size]
        /\ env = [forWriting |-> call.forWriting, open_ok |-> call.open_ok,
                  alloc_fail_at |-> call.alloc_fail_at]
    /\ valid = [c \in BOOLEAN |-> "none"]
    /\ mph = NotAsked
    /\ apc = "closed"
    /\ handle = "none"
    /\ claimed = FALSE
    /\ unpkarc = "none"
    /\ entries = <<>>
    /\ fat_buffer = <<>>
    /\ fnt_buffer = <<>>
    /\ stack = <<>>
    /\ load_ret = "none"
    /\ fat_indexed = {}
    /\ fnt_outside = FALSE
    /\ fnt_ub = FALSE
    /\ LzIdle
    /\ SndIdle

NextArc ==
    \/ NDS_open_archive
    \/ NDS_load_entries
    \/ NDS_load_entries_arm7_overlay
    \/ NDS_load_entries_arm9_overlay
    \/ NDS_load_entries_banner
    \/ NDS_load_entries_nitrofs
    \/ recurse_dir_table_file
    \/ recurse_dir_table_dir
    \/ recurse_dir_table_return
    \/ NDS_open_archive_return

SpecArc == InitArc /\ [][NextArc]_vars

---------------------------------------------------------------------------
(* Claims about NDS_open_archive, checked under SpecArc *)

Returned == apc = "done"

\* nothing but the cartridge decides the call: it is for reading, the whole image
\* can be read, UNPK_openArchive and every UNPK_addEntry succeed
PlainCall ==
    /\ ~env.forWriting
    /\ env.open_ok
    /\ env.alloc_fail_at = 0
    /\ io.size = ImageSize

\* the file name table that was read
FntIs(bytes) == fnt_buffer = bytes \o Zeros(BufferSlack)

\* a header with no table and no icon
NoTables(h) ==
    /\ h.file_allocation_table_offset = 0 /\ h.file_allocation_table_size = 0
    /\ h.file_name_table_offset = 0 /\ h.file_name_table_size = 0
    /\ h.arm9_overlay_offset = 0 /\ h.arm9_overlay_size = 0
    /\ h.arm7_overlay_offset = 0 /\ h.arm7_overlay_size = 0
    /\ h.icon_title_offset = 0

FileEntry(name, pos, len) ==
    [name |-> name, isdir |-> FALSE, pos |-> [lo |-> pos, hi |-> 0],
     len |-> [lo |-> len, hi |-> 0]]

EntrySet == {entries[k] : k \in 1..Len(entries)}

\* C13 as stated: opening a minimal cartridge, whose header is accepted and has no
\* FAT, FNT, overlay table or icon, succeeds with exactly the entries header,
\* bin/arm9.bin, bin/arm7.bin, bin/fat.bin and bin/fnt.bin
C13_MinimalCartridgeOpens ==
    (Returned /\ PlainCall /\ NoTables(header) /\ ~HeaderOrBinaryOff(header)) =>
        /\ handle = "unpkarc"
        /\ EntrySet = {FileEntry("header", 0, header.rom_size_header),
                       FileEntry("bin/arm9.bin", header.arm9_rom_offset, header.arm9_size),
                       FileEntry("bin/arm7.bin", header.arm7_rom_offset, header.arm7_size),
                       FileEntry("bin/fat.bin", 0, 0),
                       FileEntry("bin/fnt.bin", 0, 0)}

\* C14 as stated: with a file name table in which a directory contains itself, or
\* a longer cycle, the open terminates and returns failure
C14_CycleFails ==
    (/\ Returned
     /\ PlainCall
     /\ header.file_allocation_table_size = 16
     /\ FntIs(Fnt("/d is the root")) \/ FntIs(Fnt("/d/e is the root"))) => handle = "NULL"

\* C15 as stated: every access of the walk to FNT data lies inside the loaded FNT
C15_FntAccessInside == ~fnt_outside

\* the fat_file_id of each entry of an overlay table that is parsed
OverlayFatIds(offset, size) ==
    IF offset # 0 /\ size # 0 /\ size % 32 = 0
    THEN {io_byte(io, offset + 32 * k + 24) + 256 * io_byte(io, offset + 32 * k + 25) :
            k \in 0..(size \div 32 - 1)}
    ELSE {}

\* C16: every index the FAT is read at is below file_allocation_table_size / 8; an
\* overlay-table entry with a fat_file_id not below it, or a NitroFS file assigned
\* such an id (the third file when ids start at 1 and the FAT has two entries),
\* makes the open fail without the FAT being read there
C16_FatIndexInRange ==
    /\ \A k \in fat_indexed : k >= 0 /\ k < header.file_allocation_table_size \div 8
    /\ (Returned /\ handle = "unpkarc") =>
            \A k \in OverlayFatIds(header.arm9_overlay_offset, header.arm9_overlay_size)
                     \cup OverlayFatIds(header.arm7_overlay_offset, header.arm7_overlay_size) :
                k < header.file_allocation_table_size \div 8
    /\ (Returned /\ FntIs(Fnt("/a /b /c from FAT index 1")) /\ header.file_allocation_table_size = 16) =>
            handle # "unpkarc"

\* the open failed at the third file of /a /b /c, after the FAT was read at index 1
C16_Witness ==
    /\ Returned
    /\ PlainCall
    /\ FntIs(Fnt("/a /b /c from FAT index 1"))
    /\ header.file_allocation_table_size = 16
    /\ 1 \in fat_indexed
    /\ handle = "NULL"

\* the end of a range, when it is inside an image of less than 65536 bytes
InsideImage(e) == e.pos.hi = 0 /\ e.len.hi = 0 /\ e.pos.lo + e.len.lo <= io.size

\* start <= end for the FAT entry at index k of the image
FatOrdered(k) ==
    LET at == header.file_allocation_table_offset + 8 * k
        start == io_byte(io, at) + 256 * io_byte(io, at + 1)
        end == io_byte(io, at + 4) + 256 * io_byte(io, at + 5)
    IN  /\ io_byte(io, at + 2) = 0 /\ io_byte(io, at + 3) = 0
        /\ io_byte(io, at + 6) = 0 /\ io_byte(io, at + 7) = 0
        /\ start <= end

\* C17 as stated: in an archive that was opened, start <= end for every FAT entry
\* used and offset + length <= cartridge size for every file entry
C17_EntriesInsideImage ==
    (Returned /\ handle = "unpkarc") =>
        /\ \A k \in fat_indexed : FatOrdered(k)
        /\ \A k \in 1..Len(entries) : ~entries[k].isdir => InsideImage(entries[k])

\* C18 as stated: in an archive that was opened, no two entries have the same path
C18_PathsUnique ==
    (Returned /\ handle = "unpkarc") =>
        \A j, k \in 1..Len(entries) : j # k => entries[j].name # entries[k].name

\* C19: when a step of NDS_load_entries fails, NDS_open_archive abandons the
\* archive with the entries built so far and returns no handle; the handle it
\* returns is that of an archive NDS_load_entries completed
C19_AllOrNothing ==
    /\ (Returned /\ load_ret = "0") =>
            (handle = "NULL" /\ unpkarc = "abandoned" /\ entries = <<>>)
    /\ handle = "unpkarc" => (load_ret = "1" /\ unpkarc = "open" /\ stack = <<>>)

\* the open failed after entries had been added for files of the FAT
C19_Witness ==
    /\ Returned
    /\ load_ret = "0"
    /\ handle = "NULL"
    /\ fat_indexed # {}

\* an overlay table that is present, with a size that is not a multiple of 32
OddTable(offset, size) == offset # 0 /\ size # 0 /\ size % 32 # 0

\* C20 as stated: opening a cartridge with an arm9 or arm7 overlay table of a size
\* that is not a multiple of 32 does not succeed
C20_OddOverlayTableFails ==
    (/\ Returned
     /\ \/ OddTable(header.arm9_overlay_offset, header.arm9_overlay_size)
        \/ OddTable(header.arm7_overlay_offset, header.arm7_overlay_size)) =>
        handle # "unpkarc"

\* the entries of a table of a size that is not a multiple of 32: the table, and
\* no overlay
OddTableEntries(prefix, offset, size) ==
    OddTable(offset, size) =>
        /\ FileEntry("bin/" \o prefix \o "_ovt.bin", offset, size) \in EntrySet
        /\ \A k \in 1..Len(entries), id \in 0..3 :
            entries[k].name # "bin/" \o prefix \o "_overlays/overlay_" \o ToString(id)

\* C20 amended: an overlay table of a size that is not a multiple of 32 does not
\* fail the open: NDS_load_overlay_table adds bin/<prefix>_ovt.bin covering the
\* table, unless UNPK_addEntry fails, and goes on without parsing it; an archive
\* that was opened has that entry and no bin/<prefix>_overlays/overlay_<id>
C20_OddOverlayTableKept ==
    /\ [](handle = "unpkarc" =>
            /\ OddTableEntries("arm9", header.arm9_overlay_offset, header.arm9_overlay_size)
            /\ OddTableEntries("arm7", header.arm7_overlay_offset, header.arm7_overlay_size))
    /\ [][(/\ apc = "arm9_overlay"
           /\ OddTable(header.arm9_overlay_offset, header.arm9_overlay_size)
           /\ env.alloc_fail_at # Len(entries) + 1) =>
                (/\ apc' = "banner"
                 /\ entries' = Append(entries,
                        FileEntry("bin/arm9_ovt.bin", header.arm9_overlay_offset,
                                  header.arm9_overlay_size)))]_vars
    /\ [][(/\ apc = "arm7_overlay"
           /\ OddTable(header.arm7_overlay_offset, header.arm7_overlay_size)
           /\ env.alloc_fail_at # Len(entries) + 1) =>
                (/\ apc' = "arm9_overlay"
                 /\ entries' = Append(entries,
                        FileEntry("bin/arm7_ovt.bin", header.arm7_overlay_offset,
                                  header.arm7_overlay_size)))]_vars

\* a cartridge with an arm9 overlay table of 40 bytes was opened
C20_Witness ==
    /\ Returned
    /\ handle = "unpkarc"
    /\ header.arm9_overlay_size = 40
    /\ header.arm9_overlay_offset # 0

\* the (game_code, rom_version) pairs of each category
ReleasePairs ==
    {<<<<65, 77, 72, 69>>, 0>>, <<<<65, 77, 72, 69>>, 1>>, <<<<65, 77, 72, 80>>, 0>>,
     <<<<65, 77, 72, 80>>, 1>>, <<<<65, 77, 72, 74>>, 0>>, <<<<65, 77, 72, 74>>, 1>>,
     <<<<65, 77, 72, 75>>, 0>>}
FirstHuntPairs == {<<<<65, 77, 70, 69>>, 0>>, <<<<65, 77, 70, 80>>, 0>>}
KioskPairs == {<<<<65, 55, 54, 69>>, 0>>}

RomPair == <<header.game_code, header.rom_version>>
Answered(p, set) == mph[p] # "none" => (mph[p] = "true" <=> RomPair \in set)

\* C12: each of is_mph_release, is_mph_first_hunt and is_mph_kiosk is true exactly
\* for the (game_code, rom_version) pairs of its own table, at most one of the three
\* is true of a header, and is_mph_recognized is true iff one of them is
C12_RomClassification ==
    /\ Answered("release", ReleasePairs)
    /\ Answered("first_hunt", FirstHuntPairs)
    /\ Answered("kiosk", KioskPairs)
    /\ Answered("recognized", ReleasePairs \cup FirstHuntPairs \cup KioskPairs)
    /\ Cardinality({p \in {"release", "first_hunt", "kiosk"} : mph[p] = "true"}) <= 1
    /\ (\A p \in RomPredicates : mph[p] # "none") =>
            (mph["recognized"] = "true" <=>
                \E p \in {"release", "first_hunt", "kiosk"} : mph[p] = "true")

\* all four predicates were asked about ("AMHE", 0): release and recognized
C12_Witness ==
    /\ RomPair = <<<<65, 77, 72, 69>>, 0>>
    /\ mph["release"] = "true"
    /\ mph["recognized"] = "true"
    /\ mph["first_hunt"] = "false"
    /\ mph["kiosk"] = "false"

---------------------------------------------------------------------------
(* The inputs archive_extract_entries is called on *)

\* most file entries of an archive enumerated
MaxFiles == 2

\* a Uint32 as stored big-endian
BE32(x) == <<x.hi \div 256, x.hi % 256, x.lo \div 256, x.lo % 256>>

\* the file entries built: offset and size_target relative to the payload, which
\* starts at base, and to the end of the input, at size
EntryKinds ==
    {"first 4", "next 4", "all 8", "none at end", "none after end", "5 of last 4",
     "sum wraps", "offset 65536"}

\* an archive_file_entry_t as stored, for file k
ArchiveEntry(kind, k, base, size) ==
    LET range ==
            CASE kind = "first 4" -> <<U32OfNat(base), U32OfNat(4)>>
              [] kind = "next 4" -> <<U32OfNat(base + 4), U32OfNat(4)>>
              [] kind = "all 8" -> <<U32OfNat(base), U32OfNat(8)>>
              [] kind = "none at end" -> <<U32OfNat(size), U32OfNat(0)>>
              [] kind = "none after end" -> <<U32OfNat(size + 1), U32OfNat(0)>>
              [] kind = "5 of last 4" -> <<U32OfNat(base + 4), U32OfNat(5)>>
              [] kind = "sum wraps" -> <<U32OfNat(16), U32(65528, 65535)>>
              [] kind = "offset 65536" -> <<U32(0, 1), U32OfNat(0)>>
        fname == IF kind = "all 8" THEN [c \in 1..SizeofFname |-> 120]
                 ELSE <<97 + k>> \o Zeros(SizeofFname - 1)
        size_padded == IF kind = "next 4" THEN U32OfNat(0) ELSE U32OfNat(32)
    IN  fname \o BE32(range[1]) \o BE32(size_padded) \o BE32(range[2]) \o Zeros(20)

\* the file entries of an archive, from file k on
RECURSIVE ArchiveEntries(_, _, _, _)
ArchiveEntries(kinds, k, base, size) ==
    IF k >= Len(kinds) THEN <<>>
    ELSE ArchiveEntry(kinds[k + 1], k, base, size) \o ArchiveEntries(kinds, k + 1, base, size)

\* an archive with the file entries and payload given, and one thing wrong or
\* nothing
ArchiveDefects ==
    {"none", "magic ends with 1", "magic starts with X", "one file more", "one file less",
     "2^26 files", "size one less", "size 65536 more", "31 bytes"}

Archive(kinds, payload, defect) ==
    LET base == SizeofHeaderArchive + SizeofArchiveFileEntry * Len(kinds)
        size == base + Len(payload)
        magic == CASE defect = "magic ends with 1" -> <<83, 78, 68, 70, 73, 76, 69, 1>>
                   [] defect = "magic starts with X" -> <<88, 78, 68, 70, 73, 76, 69, 0>>
                   [] OTHER -> SubSeq(MAGIC, 1, 8)
        file_count == CASE defect = "one file more" -> U32OfNat(Len(kinds) + 1)
                        [] defect = "one file less" /\ Len(kinds) > 0 -> U32OfNat(Len(kinds) - 1)
                        [] defect = "2^26 files" -> U32(0, 1024)
                        [] OTHER -> U32OfNat(Len(kinds))
        archive_size == CASE defect = "size one less" -> U32OfNat(size - 1)
                          [] defect = "size 65536 more" -> U32(size, 1)
                          [] OTHER -> U32OfNat(size)
        whole == magic \o BE32(file_count) \o BE32(archive_size) \o Zeros(16)
                 \o ArchiveEntries(kinds, 0, base, size) \o payload
    IN  IF defect = "31 bytes" THEN SubSeq(whole, 1, 31) ELSE whole

Archives ==
    {Archive(kinds, payload, defect) :
        kinds \in SeqsUpTo(EntryKinds, MaxFiles),
        payload \in {<<>>, <<1, 2, 3, 4, 5, 6, 7, 8>>},
        defect \in ArchiveDefects}

InitSnd ==
    /\ snd_in \in Archives
    /\ snd_out \in {<<>>, <<[fname |-> [c \in 1..SizeofFname |-> 122], size |-> U32OfNat(1),
                            data |-> <<9>>]>>}
    /\ snd_i = 0
    /\ snd_ret = "none"
    /\ snd_oob = FALSE
    /\ LzIdle
    /\ header = NoHeader
    /\ valid = [c \in BOOLEAN |-> "none"]
    /\ mph = NotAsked
    /\ ArcClosed

NextSnd ==
    \/ archive_extract_entries
    \/ archive_extract_entries_loop

SpecSnd == InitSnd /\ [][NextSnd]_vars

---------------------------------------------------------------------------
(* Claims about archive_extract_entries, checked under SpecSnd *)

SndReturned == snd_ret \in {"true", "false"}
SndEnded == snd_ret \in {"true", "false", "bad_alloc", "crash"}

\* the big-endian number in the four bytes of snd_in from byte k on, when it is
\* below 65536, and -1 when it is not
SmallBE32(k) ==
    IF snd_in[k + 1] = 0 /\ snd_in[k + 2] = 0 THEN 256 * snd_in[k + 3] + snd_in[k + 4] ELSE -1

\* the input holds its header and the whole of the entry table its header counts
TableInside ==
    /\ Len(snd_in) >= 32
    /\ SmallBE32(8) >= 0
    /\ Len(snd_in) >= 32 + 64 * SmallBE32(8)

\* offset > len(input) or offset + size_target > len(input), as integers, for the
\* k-th file entry
EndsAfterInput(k) ==
    LET offset == SmallBE32(32 + 64 * k + 32)
        size_target == SmallBE32(32 + 64 * k + 40)
    IN  offset < 0 \/ size_target < 0 \/ offset + size_target > Len(snd_in)

\* C21 as stated: no byte is copied from outside the input, and the call fails when
\* some file entry has offset > len(input) or offset + size_target > len(input)
C21_OutsideEntryFails ==
    /\ ~snd_oob
    /\ (SndEnded /\ TableInside /\ \E k \in 0..(SmallBE32(8) - 1) : EndsAfterInput(k)) =>
            snd_ret = "false"

\* C22 as stated: after a successful call out has file_count entries, in the order
\* of the entry table; entry k has the 32 bytes of the name field as its name and
\* input[offset .. offset + size_target) as its data
C22_EntriesAsStored ==
    snd_ret = "true" =>
        /\ TableInside
        /\ Len(snd_out) = SmallBE32(8)
        /\ \A k \in 0..(Len(snd_out) - 1) :
            LET at == 32 + 64 * k
                offset == SmallBE32(at + 32)
                size_target == SmallBE32(at + 40)
            IN  /\ snd_out[k + 1].fname = SubSeq(snd_in, at + 1, at + 32)
                /\ ~EndsAfterInput(k)
                /\ snd_out[k + 1].size = [lo |-> size_target, hi |-> 0]
                /\ snd_out[k + 1].data = SubSeq(snd_in, offset + 1, offset + size_target)

\* C23: the call fails when the input has fewer than 32 bytes, when its first 8
\* bytes are not "SNDFILE\0", when archive_size is not len(input), and when
\* len(input) <= 32 + 64 * file_count
C23_BadHeaderFails ==
    (\/ Len(snd_in) < 32
     \/ SubSeq(snd_in, 1, 8) # <<83, 78, 68, 70, 73, 76, 69, 0>>
     \/ SmallBE32(12) # Len(snd_in)
     \/ SmallBE32(8) < 0
     \/ Len(snd_in) <= 32 + 64 * SmallBE32(8)) => snd_ret \in {"none", "false"}

\* the call failed on an archive of 32 bytes with the magic, file_count 0 and
\* archive_size 32
C23_Witness ==
    /\ snd_ret = "false"
    /\ Len(snd_in) = 32
    /\ SubSeq(snd_in, 1, 8) = <<83, 78, 68, 70, 73, 76, 69, 0>>
    /\ SmallBE32(8) = 0
    /\ SmallBE32(12) = 32

\* C24 as stated: after a call that failed, out is empty
C24_OutEmptyOnFailure == snd_ret = "false" => snd_out = <<>>

---------------------------------------------------------------------------
(* Further claims about decompress_lz, checked under SpecLzss *)

\* C25 as stated: in the LZ11 decoder, when a token has been decoded and the group
\* of its flag byte goes on, the bits that select the remaining tokens are those
\* of the flag byte as before the token
C25_FlagByteKept ==
    [][(pc = "bits" /\ algorithm = "lz11" /\ pc' = "bits") =>
            \A k \in 0..i' : Shr(b', k) % 2 = Shr(b, k) % 2]_vars

\* decompress_lz_overlay accepted the footer and built flipped_data
OverlayAccepted == is_overlay /\ algorithm = "lz10"

FooterPadding(in) == in[Len(in) - 4]

\* C26 as stated: the bytes reversed into flipped_data are the end_delta - padding
\* bytes of the input that end where the 8-byte footer starts
C26_WindowEndsAtFooter ==
    OverlayAccepted =>
        LET n == FooterEndDelta(_in) - FooterPadding(_in)
            from == Len(_in) - 8 - n
        IN  /\ from >= 0
            /\ flipped_data = Reverse([k \in 1..n |-> _in[from + k]])

\* C26 amended: the bytes reversed into flipped_data are the end_delta - padding
\* bytes of the input from filelen - end_delta on, which end padding bytes before
\* the end of the input
C26_WindowEndsAtPadding ==
    OverlayAccepted =>
        LET n == FooterEndDelta(_in) - FooterPadding(_in)
            from == Len(_in) - FooterEndDelta(_in)
        IN  /\ from >= 0
            /\ n >= 0
            /\ flipped_data = Reverse([k \in 1..n |-> _in[from + k]])

\* a footer with padding 9 was accepted, and the window is not empty
C26_Witness ==
    /\ OverlayAccepted
    /\ FooterPadding(_in) = 9
    /\ flipped_data # <<>>

\* start_delta + end_delta >= 2^32, as integers
FooterSumWraps(in) ==
    LET lo == FooterStartLo(in) + (FooterEndDelta(in) % 65536)
    IN  FooterStartHi(in) + (FooterEndDelta(in) \div 65536) + (lo \div 65536) >= 65536

\* C27 as stated: a call in overlay mode fails when filelen < 8, when
\* end_delta > filelen, when padding > end_delta, and when start_delta + end_delta
\* is 2^32 or more
C27_OverlayArithmeticChecked ==
    (/\ is_overlay
     /\ pc = "done"
     /\ \/ Len(_in) < 8
        \/ FooterEndDelta(_in) > Len(_in)
        \/ FooterPadding(_in) > FooterEndDelta(_in)
        \/ FooterSumWraps(_in)) => ret = "false"

---------------------------------------------------------------------------
(* Further claims about NDS_open_archive, checked under SpecArc *)

\* the entry added under a path, when there is one and no more
HasEntry(name) == Cardinality({k \in 1..Len(entries) : entries[k].name = name}) = 1
EntryAt(name) == entries[CHOOSE k \in 1..Len(entries) : entries[k].name = name]
IndexOf(name) == CHOOSE k \in 1..Len(entries) : entries[k].name = name

\* the entry under a path is the file at start of the FAT entry at index k
IsFatFile(name, k) ==
    LET at == header.file_allocation_table_offset + 8 * k
    IN  /\ HasEntry(name)
        /\ ~EntryAt(name).isdir
        /\ EntryAt(name).pos = [lo |-> io_byte(io, at) + 256 * io_byte(io, at + 1),
                                hi |-> io_byte(io, at + 2) + 256 * io_byte(io, at + 3)]

IsDirEntry(name) ==
    /\ HasEntry(name)
    /\ EntryAt(name) = [name |-> name, isdir |-> TRUE, pos |-> [lo |-> 0, hi |-> 0],
                        len |-> [lo |-> 0, hi |-> 0]]

\* C28: the k-th file of a directory is the file of FAT index first_fat_entry_id + k
\* of that directory.  In the table with the root (first id 0) holding the
\* directory d and then the file a, and d (first id 1) holding the file b: a is at
\* index 0, b at index 1, and the entry of d comes before that of d/b; in the table
\* with the root holding a and b, a is at index 0 and b at index 1
C28_FileIdsPerDirectory ==
    (Returned /\ handle = "unpkarc") =>
        /\ FntIs(Fnt("/d/b /a")) =>
            /\ IsFatFile("nitrofs/a", 0)
            /\ IsFatFile("nitrofs/d/b", 1)
            /\ IsDirEntry("nitrofs/d")
            /\ IndexOf("nitrofs/d") < IndexOf("nitrofs/d/b")
            /\ IndexOf("nitrofs/d/b") < IndexOf("nitrofs/a")
        /\ FntIs(Fnt("/a /b")) =>
            /\ IsFatFile("nitrofs/a", 0)
            /\ IsFatFile("nitrofs/b", 1)
            /\ IndexOf("nitrofs/a") < IndexOf("nitrofs/b")

\* the cartridge with /d/b and /a was opened
C28_Witness ==
    /\ Returned
    /\ handle = "unpkarc"
    /\ FntIs(Fnt("/d/b /a"))
    /\ header.file_allocation_table_size = 16

\* the header fields of the cartridge with files /a and /b and nothing else,
\* whatever CRC-16 it stores
IsPlainCartridge(h) ==
    /\ ~HeaderOrBinaryOff(h)
    /\ h.file_allocation_table_offset = FatOffset /\ h.file_allocation_table_size = 16
    /\ h.file_name_table_offset = FntOffset /\ h.file_name_table_size = 13
    /\ h.arm9_overlay_offset = 0 /\ h.arm9_overlay_size = 0
    /\ h.arm7_overlay_offset = 0 /\ h.arm7_overlay_size = 0
    /\ h.icon_title_offset = 0

\* C29: an open for writing, of an image with fewer than 512 bytes, or of a header
\* that seems_valid_enough(false) refuses returns no archive, adds no entry and
\* leaves *claimed alone; *claimed is set only for a header that was read and
\* accepted; and the CRC-16 a header stores decides nothing: validation gives the
\* same answer with another one, and the cartridge with files /a and /b opens
\* with each CRC-16
C29_RefusedBeforeClaim ==
    /\ (env.forWriting \/ io.size < 512 \/ ~seems_valid_enough(header, FALSE)) =>
            /\ ~claimed
            /\ entries = <<>>
            /\ unpkarc = "none"
            /\ Returned => handle = "NULL"
    /\ claimed => (~env.forWriting /\ io.size >= 512 /\ seems_valid_enough(header, FALSE))
    /\ seems_valid_enough(header, FALSE)
            = seems_valid_enough([header EXCEPT !.header_crc16 = (@ + 1) % 65536], FALSE)
    /\ (Returned /\ PlainCall /\ IsPlainCartridge(header) /\ FntIs(Fnt("/a /b"))) =>
            handle = "unpkarc"

\* a header that was read whole and refused: the open returned no archive
C29_Witness ==
    /\ Returned
    /\ ~env.forWriting
    /\ io.size >= 512
    /\ ~seems_valid_enough(header, FALSE)
    /\ handle = "NULL"

\* a cartridge storing a CRC-16 that is not its header's was opened
OpenedWithWrongCrc ==
    /\ Returned
    /\ handle = "unpkarc"
    /\ header.header_crc16 > 1
    /\ header.header_crc16 # compute_header_crc16(header)

\* a cartridge storing the CRC-16 of its header was opened
OpenedWithRightCrc ==
    /\ Returned
    /\ handle = "unpkarc"
    /\ header.header_crc16 > 1
    /\ header.header_crc16 = compute_header_crc16(header)


---------------------------------------------------------------------------
(* Termination of decompress_lz, checked under SpecLzssLive *)

\* the longest copies: (sh >> 0xc) + 3, and ((b & 0xf) << 12) + (next << 4)
\* + (b >> 4) + 0x111
Lz10MaxCount == 18
Lz11MaxCount == 65808

InDecoderLoop == pc \in {"loop", "bits"}
LeftDecoderLoop == pc \in {"end", "done"}
OutputReached == ~U32Less(U32OfNat(Len(Dst)), decompressed_size)

\* C30: a call of decompress_lz ends, in both modes: every step of the decoder's
\* loops moves the cursor forward or leaves the loops, a token adds at most the
\* longest copy to the output, a step taken with the output at the declared size
\* or the cursor past the end of the input leaves the loops, and every call that
\* is made comes to its end.  Where a read outside a vector aborts the program the
\* call has ended too
C30_Terminates ==
    /\ [][InDecoderLoop => (iter' > iter \/ LeftDecoderLoop')]_vars
    /\ [][pc = "bits" =>
            Len(Dst') - Len(Dst) <= IF algorithm = "lz10" THEN Lz10MaxCount
                                    ELSE Lz11MaxCount]_vars
    /\ [][(InDecoderLoop /\ (OutputReached \/ iter > Len(Src))) => LeftDecoderLoop']_vars
    /\ [](pc = "bits" => ~OutputReached)
    /\ (pc = "idle") ~> (pc = "done")

\* a call returned after a back-reference had been copied and the cursor had
\* passed the end of the input
C30_Witness ==
    /\ pc = "done"
    /\ ret \in {"true", "false"}
    /\ iter > Len(Src)
    /\ Len(Dst) >= 3

=============================================================================
